---- MODULE Spec2Model ----
(***************************************************************************)
(* Model of the image-processing workflow of the AI Study Helper backend   *)
(* (app/agent/workflow.py): the LangGraph pipeline of StudyHelperWorkflow, *)
(* one action per graph node, the conditional edges evaluated at the end   *)
(* of the node they leave.                                                 *)
(*                                                                         *)
(* Scores and confidences are hundredths (0.6 is 60).  A text is the       *)
(* record [none, core, ws]: none is Python's None, core the number of      *)
(* characters that survive str.strip(), ws the number of surrounding       *)
(* whitespace characters.                                                  *)
(***************************************************************************)
EXTENDS Integers, Sequences, FiniteSets, TLC

VARIABLES
    pc,             \* the graph node that runs next, or "END"
    state,          \* the ImageProcessingState threaded through the nodes
    settings,       \* the configuration read from the environment
    vision_client,  \* TRUE iff the Google Vision client could be created
    executed,       \* history: the nodes that have run, in order
    calls,          \* history: the external AI/OCR calls performed, in order
    attempts,       \* history: the engines tried by extract_text_node
    producer,       \* history: the engine whose output is extracted_text
    failed,         \* history: the nodes whose except branch was taken
    result,         \* <<the state process_image returned>>, <<>> before
    exception,      \* message of the exception process_image caught, or None
    upload,         \* the image: its size in bytes, and whether the caller put
                    \* the bytes into the state (else they are read from image_path)
    chunks,         \* process_chunks_parallel: the chunk_id of each input chunk
    max_concurrency,\* process_chunks_parallel: its max_concurrency argument
    faults,         \* for each chunk, the call of its task that raises
    loop,           \* position of the batch loop of process_chunks_parallel
    batch_start,    \* the loop variable i: start index of the current batch
    phase,          \* for each chunk, the position of its process_single_chunk
    semaphore,      \* the value of asyncio.Semaphore(max_concurrency)
    local,          \* for each chunk, summary/explanation/quiz held by its task
    task_result,    \* for each chunk, what its task returned, <<>> before
    results,        \* the list "results"
    progress,       \* history: the arguments of each progress_callback call
    delays,         \* history: the number of pacing delays that have elapsed
    full_text,      \* create_chunks: the text to split, a sequence of characters
    chunk_size,     \* create_chunks: its chunk_size argument
    overlap_size,   \* create_chunks: its overlap_size argument
    preserve_math,  \* create_chunks: its preserve_math argument
    start_index,    \* create_chunks: where the next chunk starts
    doc_chunks,     \* create_chunks: the list "chunks" built so far
    cc_pc,          \* create_chunks: "entry", "while" or "returned"
    chunk_results,  \* merge_chunk_results: the list passed as chunk_results
    merge_input,    \* history: chunk_results as it was before the first call
    merged,         \* history: what each call of merge_chunk_results returned
    fb_text,        \* _generate_fallback_quiz: the sentences of its text
    fb_quiz,        \* <<the list _generate_fallback_quiz returned>>, <<>> before
    response,       \* <<what process_study_image returned>>, <<>> before
    accounts,       \* the rows of the table users, by email
    sessions,       \* the rows of the table user_sessions, in the order of creation
    next_jti,       \* the number of tokens created so far: the next token's jti
    last_call       \* the last call of the authentication service and its outcome

pipeline_vars == <<pc, state, settings, vision_client, executed, calls, attempts,
                   producer, failed, result, exception, upload>>

chunk_vars == <<chunks, max_concurrency, faults, loop, batch_start, phase, semaphore, local,
                task_result, results, progress, delays>>

chunking_vars == <<full_text, chunk_size, overlap_size, preserve_math, start_index,
                   doc_chunks, cc_pc>>

merge_vars == <<chunk_results, merge_input, merged>>

quiz_vars == <<fb_text, fb_quiz>>

study_vars == <<response>>

auth_vars == <<accounts, sessions, next_jti, last_call>>

rest_vars == <<quiz_vars, study_vars, auth_vars>>

vars == <<pipeline_vars, chunk_vars, chunking_vars, merge_vars, rest_vars>>

(***************************************************************************)
(* Bounds of the model                                                     *)
(***************************************************************************)
MaxTextLen == 11

\* the largest number of chunks and the largest max_concurrency of a run of
\* process_chunks_parallel
MaxChunks == 4
MaxConcurrency == 3

\* create_chunks: the longest text over the characters "a", "$" and "\", the
\* longest text with line breaks, and the number of characters around the
\* 70% mark that are separators
MaxPlainText == 5
MaxLineText == 14
BreakWindow == 5

\* merge_chunk_results: the largest number of chunk results of a call
MaxResults == 6
MaxSentences == 6
MaxJti == 6

\* representative quality scores around the floor and the thresholds
Scores == {0, 19, 20, 59, 60, 100}

(***************************************************************************)
(* Program constants                                                       *)
(***************************************************************************)
DEFAULT_QUALITY_THRESHOLD == 60
DEFAULT_MIN_TEXT_LENGTH == 10
QUALITY_FLOOR == 20
ROUTE_AI_MIN_LENGTH == 10
FAILED_TEXT_LENGTH == 78
QUALITY_FALLBACK_SCORE == 30
CONTENT_FALLBACK_CONFIDENCE == 50
GOOGLE_VISION_CONFIDENCE == 90
GEMINI_VISION_CONFIDENCE == 80
BASIC_TEXT_CONFIDENCE == 70
PARSE_DEFAULT_SCORE == 50
MAX_ISSUES == 5
MAX_TEXT_ISSUES == 3

\* Settings: every field can be overridden from the environment / .env file
SettingsChoices ==
    [QUALITY_THRESHOLD : {DEFAULT_QUALITY_THRESHOLD},
     MIN_TEXT_LENGTH   : {DEFAULT_MIN_TEXT_LENGTH, MaxTextLen}]

(***************************************************************************)
(* Values                                                                  *)
(***************************************************************************)
None == "None"
None_float == -1

ImageQuality == {"high", "medium", "low"}
ContentType == {"handwritten_text", "printed_text", "diagram", "mixed"}
ProcessingTool == {"trocr", "paddleocr", "google_vision", "gemini_vision", "none"}

NoneText == [none |-> TRUE, core |-> 0, ws |-> 0]
Str(core, ws) == [none |-> FALSE, core |-> core, ws |-> ws]
EmptyStr == Str(0, 0)

\* the texts an engine can return for an image
Texts == {Str(c, w) : c \in 0..MaxTextLen, w \in {0, 1}}

\* len(text), text.strip(), and the truth value of a str / Optional[str]
PyLen(t) == t.core + t.ws
Strip(t) == Str(t.core, 0)
Truthy(t) == (~t.none) /\ PyLen(t) > 0

\* error messages written by the nodes
MSG_UNSUPPORTED == "Unsupported image format"
MSG_VALIDATION == "Image validation failed"
MSG_TOO_LOW == "Image quality too low for processing"
MSG_ROUTING == "Routing failed"
MSG_INSUFFICIENT == "Insufficient text extracted from image"
MSG_EXTRACTION == "Text extraction failed"
MSG_TOO_LARGE == "Image too large for processing"

\* ImageProcessingState(image_path=..., user_id=..., start_time=time.time())
InitialState ==
    [image_data            |-> None,
     processing_time       |-> None,
     error_message         |-> None,
     quality_score         |-> None_float,
     quality_classification|-> None,
     quality_issues        |-> <<>>,
     content_type          |-> None,
     content_confidence    |-> None_float,
     extracted_text        |-> NoneText,
     extraction_confidence |-> None_float,
     processing_tool_used  |-> None,
     summary               |-> None,
     explanation           |-> None,
     quiz_questions        |-> "empty",
     needs_preprocessing   |-> FALSE,
     should_proceed        |-> TRUE,
     recommended_action    |-> None]

\* MAX_IMAGE_SIZE of the settings, in bytes
MAX_IMAGE_SIZE == 10 * 1024 * 1024

\* a small image file handed over as image_path, as process_image does
SmallFile == [size |-> 1, supplied |-> FALSE]

\* create_chunks has not been called
NoChunking ==
    /\ full_text = <<>>
    /\ chunk_size = 1
    /\ overlap_size = 0
    /\ preserve_math = FALSE
    /\ start_index = 0
    /\ doc_chunks = <<>>
    /\ cc_pc = "not called"

\* _generate_fallback_quiz has not been called
NoFallbackQuiz ==
    /\ fb_text = <<>>
    /\ fb_quiz = <<>>

\* process_study_image has not returned
NoStudy == response = <<>>

\* no token and no call of the authentication service
NoToken == [sub |-> "nobody", jti |-> 0 - 1, type |-> "none"]
NoCall == [op |-> "none", email |-> "", password |-> "", token |-> NoToken,
           accepted |-> FALSE]

\* the authentication service has no account and was not called
NoAuth ==
    /\ accounts = <<>>
    /\ sessions = <<>>
    /\ next_jti = 0
    /\ last_call = NoCall

\* none of the other services has been called
NoRest == NoFallbackQuiz /\ NoStudy /\ NoAuth

\* merge_chunk_results has not been called
NoMerge ==
    /\ chunk_results = <<>>
    /\ merge_input = <<>>
    /\ merged = <<>>

\* process_chunks_parallel has not been called
NoChunkProcessing ==
    /\ chunks = <<>>
    /\ max_concurrency = 1
    /\ faults = <<>>
    /\ loop = "not called"
    /\ batch_start = 0
    /\ phase = <<>>
    /\ semaphore = 0
    /\ local = <<>>
    /\ task_result = <<>>
    /\ results = <<>>
    /\ progress = <<>>
    /\ delays = 0

Init ==
    /\ NoRest
    /\ pc = "validate_image"
    /\ state = InitialState
    /\ settings \in SettingsChoices
    /\ vision_client \in BOOLEAN
    /\ executed = <<>>
    /\ calls = <<>>
    /\ attempts = <<>>
    /\ producer = "none"
    /\ failed = {}
    /\ result = <<>>
    /\ exception = None
    /\ upload = SmallFile
    /\ NoChunkProcessing
    /\ NoChunking
    /\ NoMerge

\* a node has run: the graph moves to next with the state the node returned
Step(node, next, newState) ==
    /\ pc = node
    /\ state' = newState
    /\ pc' = next
    /\ executed' = Append(executed, node)
    /\ UNCHANGED <<settings, vision_client, result, exception, upload>>
    /\ UNCHANGED <<chunk_vars, chunking_vars, merge_vars, rest_vars>>

(***************************************************************************)
(* validate_image                                                          *)
(***************************************************************************)
\* outcome of Image.open and of the format test for the uploaded file
validate_image_node(s, image, size) ==
    CASE image = "raise"       -> [s EXCEPT !.error_message = MSG_VALIDATION,
                                            !.should_proceed = FALSE]
      [] image = "unsupported" -> [s EXCEPT !.error_message = MSG_UNSUPPORTED,
                                            !.should_proceed = FALSE]
      [] OTHER ->
            \* len(state.image_data or b"")
            IF (IF s.image_data = None THEN 0 ELSE size) > MAX_IMAGE_SIZE
            THEN [s EXCEPT !.error_message = MSG_TOO_LARGE, !.should_proceed = FALSE]
            ELSE [s EXCEPT !.image_data = "original"]

ValidateImage ==
    \E image \in {"ok", "unsupported", "raise"} :
        /\ Step("validate_image", "assess_quality",
                validate_image_node(state, image, upload.size))
        /\ UNCHANGED <<calls, attempts, producer, failed>>

(***************************************************************************)
(* assess_quality                                                          *)
(***************************************************************************)
\* an issue list of n entries
Issues(n) == [i \in 1..n |-> "blur"]

\* the issue lists a quality response can carry, up to two past the cap
IssueLists == {Issues(n) : n \in {0, 1, MAX_ISSUES, MAX_ISSUES + 2}}

\* the scores a response can carry: the representative scores and two values
\* outside [0.0, 1.0]
RawScores == Scores \cup {-50, 150}

\* what the Gemini Vision call delivers.  The call raises; or the response
\* holds a JSON object (json) with any score, any classification string and
\* any issue list, a missing score being None_float and a missing
\* classification None; or the response is free text, read line by line:
\* score is the first decimal of a line with "score" (never negative),
\* classification the keyword class and issues the lines naming an issue.
QualityResponses ==
    {[raise |-> TRUE, json |-> FALSE, score |-> None_float,
      classification |-> "medium", issues |-> <<>>]}
    \cup [raise : {FALSE}, json : {TRUE}, score : RawScores \cup {None_float},
          classification : ImageQuality \cup {"unknown", None}, issues : {<<>>}]
    \cup [raise : {FALSE}, json : {TRUE}, score : {60},
          classification : {"high"}, issues : IssueLists]
    \cup [raise : {FALSE}, json : {FALSE}, score : {None_float, 150},
          classification : ImageQuality, issues : {<<>>, Issues(MAX_ISSUES)}]

\* min(1.0, max(0.0, x))
Clamp(x) == IF x < 0 THEN 0 ELSE IF x > 100 THEN 100 ELSE x

\* xs[:n]
Take(xs, n) == SubSeq(xs, 1, IF Len(xs) < n THEN Len(xs) ELSE n)

\* the clamp left out of the JSON branch
parse_quality_response_unclamped(r) ==
    [score |-> IF r.score = None_float THEN PARSE_DEFAULT_SCORE ELSE r.score,
     classification |-> IF r.classification = None THEN "medium" ELSE r.classification,
     issues |-> Take(r.issues, IF r.json THEN MAX_ISSUES ELSE MAX_TEXT_ISSUES)]

\* _parse_quality_response: the JSON branch, else the text branch
parse_quality_response(r) ==
    [score |-> Clamp(IF r.score = None_float THEN PARSE_DEFAULT_SCORE ELSE r.score),
     classification |-> IF r.classification = None THEN "medium" ELSE r.classification,
     issues |-> Take(r.issues, IF r.json THEN MAX_ISSUES ELSE MAX_TEXT_ISSUES)]

\* the except branch of assess_quality_node is taken: the call raised, or
\* ImageQuality(...) rejected the classification
assess_quality_fails(r) ==
    r.raise \/ parse_quality_response(r).classification \notin ImageQuality

\* assess_quality without its guard
assess_quality_never_skips(s) == FALSE

\* "if not state.should_proceed: return state"
assess_quality_skips(s) == ~s.should_proceed

\* the fallback that also stops the run
quality_fallback_fatal(s) ==
    [s EXCEPT !.quality_score = QUALITY_FALLBACK_SCORE,
              !.quality_classification = "low",
              !.quality_issues = <<"Quality assessment failed">>,
              !.should_proceed = FALSE]

quality_fallback(s) ==
    [s EXCEPT !.quality_score = QUALITY_FALLBACK_SCORE,
              !.quality_classification = "low",
              !.quality_issues = <<"Quality assessment failed">>]

assess_quality_node(s, r) ==
    IF assess_quality_skips(s) THEN s
    ELSE IF assess_quality_fails(r) THEN quality_fallback(s)
    ELSE LET q == parse_quality_response(r) IN
         [s EXCEPT !.quality_score = q.score,
                   !.quality_classification = q.classification,
                   !.quality_issues = q.issues]

AssessQuality ==
    \E r \in QualityResponses :
        /\ Step("assess_quality", "classify_content", assess_quality_node(state, r))
        /\ calls' = IF assess_quality_skips(state) THEN calls
                    ELSE Append(calls, "quality_vision")
        /\ failed' = IF (~assess_quality_skips(state)) /\ assess_quality_fails(r)
                     THEN failed \cup {"assess_quality"} ELSE failed
        /\ UNCHANGED <<attempts, producer>>

(***************************************************************************)
(* classify_content                                                        *)
(***************************************************************************)
ContentConfidences == {80}

\* the Gemini text call raises, or _parse_content_type_response returns a
\* lower-cased content_type string and a clamped confidence
ContentResponses ==
    {[raise |-> TRUE, content_type |-> "mixed", confidence |-> 70]}
    \cup [raise : {FALSE}, content_type : ContentType \cup {"unknown"},
          confidence : ContentConfidences]

\* "if not state.should_proceed: return state"
classify_content_skips(s) == ~s.should_proceed

content_fallback(s) ==
    [s EXCEPT !.content_type = "mixed",
              !.content_confidence = CONTENT_FALLBACK_CONFIDENCE]

\* the except branch of classify_content_node is taken: a call raised, or
\* ContentType(...) rejected the content type
classify_content_fails(r) == r.raise \/ r.content_type \notin ContentType

classify_content_node(s, r) ==
    IF classify_content_skips(s) THEN s
    ELSE IF classify_content_fails(r) THEN content_fallback(s)
    ELSE [s EXCEPT !.content_type = r.content_type,
                   !.content_confidence = r.confidence]

ClassifyContent ==
    \E r \in ContentResponses :
        /\ Step("classify_content", "route_processing", classify_content_node(state, r))
        /\ calls' = IF classify_content_skips(state) THEN calls
                    ELSE calls \o <<"basic_ocr", "content_classification">>
        /\ failed' = IF (~classify_content_skips(state)) /\ classify_content_fails(r)
                     THEN failed \cup {"classify_content"} ELSE failed
        /\ UNCHANGED <<attempts, producer>>

(***************************************************************************)
(* route_processing and its conditional edge                               *)
(***************************************************************************)
\* the floor test with <= in place of <
VeryLowQuality_inclusive(score) == score <= QUALITY_FLOOR

\* "state.quality_score < 0.2": very low quality
VeryLowQuality(score) == score < QUALITY_FLOOR

\* "elif state.quality_score < settings.QUALITY_THRESHOLD"
BelowThreshold(score, cfg) == score < cfg.QUALITY_THRESHOLD

\* the tool selection without its DIAGRAM branch
select_tool_no_diagram(content_type) ==
    IF content_type = "handwritten_text" THEN "trocr" ELSE "google_vision"

\* the tool selected for a content type
select_tool(content_type) ==
    IF content_type = "handwritten_text" THEN "trocr"
    ELSE IF content_type = "diagram" THEN "gemini_vision"
    ELSE "google_vision"

\* the preprocessing decision; comparing a None score raises TypeError
route_preprocessing(s, cfg) ==
    IF s.quality_classification = "low"
    THEN [raised |-> FALSE,
          s |-> [s EXCEPT !.needs_preprocessing = TRUE,
                          !.recommended_action = "Apply image preprocessing to improve quality"]]
    ELSE IF s.quality_score = None_float
    THEN [raised |-> TRUE, s |-> s]
    ELSE IF BelowThreshold(s.quality_score, cfg)
    THEN [raised |-> FALSE,
          s |-> [s EXCEPT !.needs_preprocessing = TRUE,
                          !.recommended_action = "Minor preprocessing recommended"]]
    ELSE [raised |-> FALSE, s |-> s]

\* a routing whose except branch lets the run go on
route_processing_node_reviving(s, cfg) ==
    LET p == route_preprocessing(s, cfg) IN
    IF p.raised \/ p.s.quality_score = None_float
    THEN [p.s EXCEPT !.error_message = MSG_ROUTING, !.should_proceed = TRUE]
    ELSE IF VeryLowQuality(p.s.quality_score)
    THEN [p.s EXCEPT !.should_proceed = FALSE, !.error_message = MSG_TOO_LOW]
    ELSE [p.s EXCEPT !.processing_tool_used = select_tool(p.s.content_type)]

route_processing_node(s, cfg) ==
    LET p == route_preprocessing(s, cfg) IN
    IF p.raised \/ p.s.quality_score = None_float
    THEN [p.s EXCEPT !.error_message = MSG_ROUTING]
    ELSE IF VeryLowQuality(p.s.quality_score)
    THEN [p.s EXCEPT !.should_proceed = FALSE, !.error_message = MSG_TOO_LOW]
    ELSE [p.s EXCEPT !.processing_tool_used = select_tool(p.s.content_type)]

\* the edge function testing needs_preprocessing before should_proceed
should_continue_processing_swapped(s) ==
    IF s.needs_preprocessing THEN "preprocess"
    ELSE IF ~s.should_proceed THEN "end"
    ELSE "extract"

should_continue_processing(s) ==
    IF ~s.should_proceed THEN "end"
    ELSE IF s.needs_preprocessing THEN "preprocess"
    ELSE "extract"

\* the mapping of add_conditional_edges("route_processing", ...)
route_edges(label) ==
    CASE label = "preprocess" -> "preprocess_image"
      [] label = "extract"    -> "extract_text"
      [] label = "end"        -> "END"

RouteProcessing ==
    LET s == route_processing_node(state, settings) IN
    /\ Step("route_processing", route_edges(should_continue_processing(s)), s)
    /\ UNCHANGED <<calls, attempts, producer, failed>>

(***************************************************************************)
(* preprocess_image                                                        *)
(***************************************************************************)
\* preprocessing that stores the half-processed image when a step raises
preprocess_image_node_partial(s, raises) ==
    IF ~s.needs_preprocessing THEN s
    ELSE IF raises THEN [s EXCEPT !.image_data = "partial"]
    ELSE [s EXCEPT !.image_data = "preprocessed"]

preprocess_image_node(s, raises) ==
    IF ~s.needs_preprocessing THEN s
    ELSE IF raises THEN s
    ELSE [s EXCEPT !.image_data = "preprocessed"]

PreprocessImage ==
    \E raises \in BOOLEAN :
        /\ Step("preprocess_image", "extract_text", preprocess_image_node(state, raises))
        /\ failed' = IF state.needs_preprocessing /\ raises
                     THEN failed \cup {"preprocess_image"} ELSE failed
        /\ UNCHANGED <<calls, attempts, producer>>

(***************************************************************************)
(* extract_text and the extraction engines                                 *)
(***************************************************************************)
\* what one engine does with the image: it raises (or is not installed), or
\* it returns a text
Raises == [raise |-> TRUE, text |-> EmptyStr]
Returns(t) == [raise |-> FALSE, text |-> t]
Engines == {"easyocr", "tesseract", "google_vision", "gemini_vision"}
AllRaise == [e \in Engines |-> Raises]

\* the engine behaviours of one extraction: no engine yields a text, or one
\* engine does (an engine behind the first one that yields is never called)
EngineOutcomes ==
    {AllRaise} \cup {[AllRaise EXCEPT ![e] = Returns(t)] : e \in Engines, t \in Texts}

\* _extract_with_google_vision: "", 0.0 on an exception or without annotations
extract_with_google_vision(o) ==
    IF o.raise \/ PyLen(o.text) = 0
    THEN [text |-> EmptyStr, confidence |-> 0]
    ELSE [text |-> o.text, confidence |-> GOOGLE_VISION_CONFIDENCE]

\* _extract_with_gemini_vision: response.text with 0.8, "", 0.0 on an exception
extract_with_gemini_vision(o) ==
    IF o.raise
    THEN [text |-> EmptyStr, confidence |-> 0]
    ELSE [text |-> o.text, confidence |-> GEMINI_VISION_CONFIDENCE]

\* the message _extract_basic_text returns when every engine failed
FailedText == Str(FAILED_TEXT_LENGTH, 0)

\* "if extracted_text.strip(): return extracted_text.strip()"
Yields(o) == (~o.raise) /\ Strip(o.text).core > 0

\* _extract_basic_text: EasyOCR, then Tesseract, then Google Vision when the
\* client exists, then the fixed message
extract_basic_text(o, client) ==
    IF Yields(o["easyocr"])
    THEN [text |-> Strip(o["easyocr"].text), tried |-> <<"easyocr">>,
          by |-> "easyocr"]
    ELSE IF Yields(o["tesseract"])
    THEN [text |-> Strip(o["tesseract"].text), tried |-> <<"easyocr", "tesseract">>,
          by |-> "tesseract"]
    ELSE IF client /\ Yields(Returns(extract_with_google_vision(o["google_vision"]).text))
    THEN [text |-> Strip(extract_with_google_vision(o["google_vision"]).text),
          tried |-> <<"easyocr", "tesseract", "google_vision">>,
          by |-> "google_vision"]
    ELSE [text |-> FailedText,
          tried |-> IF client THEN <<"easyocr", "tesseract", "google_vision">>
                    ELSE <<"easyocr", "tesseract">>,
          by |-> "none"]

\* "if not state.should_proceed: return state"
extract_text_skips(s) == ~s.should_proceed

\* the branch of extract_text_node on the tool chosen by routing
extract_with_tool(tool, o, client) ==
    IF tool = "google_vision" /\ client
    THEN LET r == extract_with_google_vision(o["google_vision"]) IN
         [text |-> r.text, confidence |-> r.confidence,
          tried |-> <<"google_vision">>,
          by |-> IF r.text.core > 0 THEN "google_vision" ELSE "none"]
    ELSE IF tool = "gemini_vision"
    THEN LET r == extract_with_gemini_vision(o["gemini_vision"]) IN
         [text |-> r.text, confidence |-> r.confidence,
          tried |-> <<"gemini_vision">>,
          by |-> IF r.text.core > 0 THEN "gemini_vision" ELSE "none"]
    ELSE LET r == extract_basic_text(o, client) IN
         [text |-> r.text, confidence |-> BASIC_TEXT_CONFIDENCE,
          tried |-> r.tried, by |-> r.by]

\* the length test against one character less
TooShort_off_by_one(text, cfg) == PyLen(Strip(text)) < cfg.MIN_TEXT_LENGTH - 1

\* "if len(text.strip()) < settings.MIN_TEXT_LENGTH"
TooShort(text, cfg) == PyLen(Strip(text)) < cfg.MIN_TEXT_LENGTH

extract_text_node(s, o, client, cfg) ==
    IF extract_text_skips(s) THEN s
    ELSE LET r == extract_with_tool(s.processing_tool_used, o, client)
             s1 == [s EXCEPT !.extracted_text = r.text,
                             !.extraction_confidence = r.confidence]
         IN IF TooShort(r.text, cfg)
            THEN [s1 EXCEPT !.error_message = MSG_INSUFFICIENT]
            ELSE s1

\* route_ai_processing: the conditional edge behind extract_text
route_ai_processing(s) ==
    IF (~Truthy(s.extracted_text)) \/ PyLen(Strip(s.extracted_text)) < ROUTE_AI_MIN_LENGTH
    THEN "finalize"
    ELSE "summary"

\* the mapping of add_conditional_edges("extract_text", ...)
ai_edges(label) ==
    CASE label = "summary"     -> "generate_summary"
      [] label = "explanation" -> "generate_explanation"
      [] label = "quiz"        -> "generate_quiz"
      [] label = "finalize"    -> "finalize_results"

ExtractText ==
    \E o \in EngineOutcomes :
        LET s == extract_text_node(state, o, vision_client, settings)
            r == extract_with_tool(state.processing_tool_used, o, vision_client)
        IN /\ Step("extract_text", ai_edges(route_ai_processing(s)), s)
           /\ UNCHANGED failed
           /\ IF extract_text_skips(state)
              THEN UNCHANGED <<calls, attempts, producer>>
              ELSE /\ calls' = Append(calls, "text_extraction")
                   /\ attempts' = r.tried
                   /\ producer' = r.by

(***************************************************************************)
(* generate_summary, generate_explanation, generate_quiz                   *)
(***************************************************************************)
\* "if not state.extracted_text or len(state.extracted_text.strip()) < 10"
summary_insufficient(s) ==
    (~Truthy(s.extracted_text)) \/ PyLen(Strip(s.extracted_text)) < 10

generate_summary_node(s, raises) ==
    IF summary_insufficient(s)
    THEN [s EXCEPT !.summary = "No sufficient text found for summary generation."]
    ELSE IF raises THEN [s EXCEPT !.summary = "Summary generation failed"]
    ELSE [s EXCEPT !.summary = "generated"]

GenerateSummary ==
    \E raises \in BOOLEAN :
        /\ Step("generate_summary", "generate_explanation",
                generate_summary_node(state, raises))
        /\ calls' = IF summary_insufficient(state) THEN calls
                    ELSE Append(calls, "summary")
        /\ failed' = IF (~summary_insufficient(state)) /\ raises
                     THEN failed \cup {"generate_summary"} ELSE failed
        /\ UNCHANGED <<attempts, producer>>

generate_explanation_node(s, raises) ==
    IF ~Truthy(s.extracted_text)
    THEN [s EXCEPT !.explanation = "No text available for explanation generation."]
    ELSE IF raises THEN [s EXCEPT !.explanation = "Explanation generation failed"]
    ELSE [s EXCEPT !.explanation = "generated"]

GenerateExplanation ==
    \E raises \in BOOLEAN :
        /\ Step("generate_explanation", "generate_quiz",
                generate_explanation_node(state, raises))
        /\ calls' = IF ~Truthy(state.extracted_text) THEN calls
                    ELSE Append(calls, "explanation")
        /\ failed' = IF Truthy(state.extracted_text) /\ raises
                     THEN failed \cup {"generate_explanation"} ELSE failed
        /\ UNCHANGED <<attempts, producer>>

\* quiz generation without the fallback generator
generate_quiz_node_no_fallback(s, raises) ==
    IF ~Truthy(s.extracted_text) THEN [s EXCEPT !.quiz_questions = "empty"]
    ELSE IF raises THEN [s EXCEPT !.quiz_questions = "empty"]
    ELSE [s EXCEPT !.quiz_questions = "parsed"]

generate_quiz_node(s, raises) ==
    IF ~Truthy(s.extracted_text) THEN [s EXCEPT !.quiz_questions = "empty"]
    ELSE IF raises THEN [s EXCEPT !.quiz_questions = "fallback"]
    ELSE [s EXCEPT !.quiz_questions = "parsed"]

GenerateQuiz ==
    \E raises \in BOOLEAN :
        /\ Step("generate_quiz", "finalize_results", generate_quiz_node(state, raises))
        /\ calls' = IF ~Truthy(state.extracted_text) THEN calls
                    ELSE Append(calls, "quiz")
        /\ failed' = IF Truthy(state.extracted_text) /\ raises
                     THEN failed \cup {"generate_quiz"} ELSE failed
        /\ UNCHANGED <<attempts, producer>>

(***************************************************************************)
(* finalize_results                                                        *)
(***************************************************************************)
finalize_results_node(s) == [s EXCEPT !.processing_time = "elapsed"]

FinalizeResults ==
    /\ Step("finalize_results", "END", finalize_results_node(state))
    /\ UNCHANGED <<calls, attempts, producer, failed>>

(***************************************************************************)
(* The workflow graph                                                      *)
(***************************************************************************)
Next ==
    \/ ValidateImage
    \/ AssessQuality
    \/ ClassifyContent
    \/ RouteProcessing
    \/ PreprocessImage
    \/ ExtractText
    \/ GenerateSummary
    \/ GenerateExplanation
    \/ GenerateQuiz
    \/ FinalizeResults

Spec == Init /\ [][Next]_vars

\* the run is over: the graph has reached END
Ended == pc = "END"

\* image sizes at and above MAX_IMAGE_SIZE
ImageSizes == {MAX_IMAGE_SIZE, MAX_IMAGE_SIZE + 1}

\* a run on an image of any of these sizes, given as image_path or as image_data
InitUpload ==
    /\ NoRest
    /\ pc = "validate_image"
    /\ upload \in [size : ImageSizes, supplied : BOOLEAN]
    /\ state = [InitialState EXCEPT
                    !.image_data = IF upload.supplied THEN "original" ELSE None]
    /\ settings \in SettingsChoices
    /\ vision_client \in BOOLEAN
    /\ executed = <<>>
    /\ calls = <<>>
    /\ attempts = <<>>
    /\ producer = "none"
    /\ failed = {}
    /\ result = <<>>
    /\ exception = None
    /\ NoChunkProcessing
    /\ NoChunking
    /\ NoMerge

SpecUpload == InitUpload /\ [][Next]_vars

(***************************************************************************)
(* process_image: the graph run inside its try/except                      *)
(***************************************************************************)
\* the exceptions graph.ainvoke can raise while nodes run, and the one the
\* conversion of the result dict can raise
GraphExceptions == {"Recursion limit reached"}
ConversionExceptions == {"validation error for ImageProcessingState"}

\* the error state that keeps the default should_proceed
error_state_proceeds(e) ==
    [InitialState EXCEPT !.error_message = "Workflow failed: " \o e]

\* the state built by the except branch of process_image
error_state(e) ==
    [InitialState EXCEPT !.error_message = "Workflow failed: " \o e,
                         !.should_proceed = FALSE]

\* an exception leaves graph.ainvoke, or the conversion of its result
WorkflowRaises ==
    \E e \in GraphExceptions \cup ConversionExceptions :
        /\ IF e \in GraphExceptions
           THEN pc \notin {"END", "returned"}
           ELSE pc = "END"
        /\ pc' = "returned"
        /\ result' = <<error_state(e)>>
        /\ exception' = e
        /\ UNCHANGED <<state, settings, vision_client, executed, calls, attempts,
                       producer, failed, upload>>
        /\ UNCHANGED <<chunk_vars, chunking_vars, merge_vars, rest_vars>>

\* "return result"
ProcessImageReturns ==
    /\ pc = "END"
    /\ pc' = "returned"
    /\ result' = <<state>>
    /\ UNCHANGED <<state, settings, vision_client, executed, calls, attempts,
                   producer, failed, exception, upload>>
    /\ UNCHANGED <<chunk_vars, chunking_vars, merge_vars, rest_vars>>

NextProcessImage ==
    \/ Next
    \/ WorkflowRaises
    \/ ProcessImageReturns

SpecProcessImage == Init /\ [][NextProcessImage]_vars

(***************************************************************************)
(* process_study_image (StudyHelperService): the work flow run, then the   *)
(* result built from its final state                                       *)
(***************************************************************************)
\* the value of "state.should_proceed and not state.error_message and
\* state.extracted_text and len(state.extracted_text.strip()) >= MIN_TEXT_LENGTH":
\* an "and" gives its first false operand, so None or '' for a missing text
success_value(s, cfg) ==
    IF ~s.should_proceed THEN "False"
    ELSE IF s.error_message # None THEN "False"
    ELSE IF s.extracted_text.none THEN "None"
    ELSE IF PyLen(s.extracted_text) = 0 THEN "''"
    ELSE IF TooShort(s.extracted_text, cfg) THEN "False" ELSE "True"

\* _build_processing_result: ProcessingResult wants a bool for success, and
\* QuizQuestion wants a known question type and difficulty for every entry of
\* the quiz; the entries of a quiz parsed from the AI response carry the
\* values the AI wrote (well_formed tells whether they pass)
build_processing_result(s, cfg, include_quiz, well_formed) ==
    LET success == success_value(s, cfg)
    IN [raised  |-> \/ success \notin {"True", "False"}
                    \/ include_quiz /\ s.quiz_questions = "parsed" /\ ~well_formed,
        success |-> success = "True"]

\* the StudySessionResponse of the try block, or of the except block
study_session_response(built, error_message) ==
    IF built.raised
    THEN [success |-> FALSE, status |-> "failed", error_message |-> "validation error"]
    ELSE [success |-> built.success,
          status  |-> IF built.success THEN "completed" ELSE "failed",
          error_message |-> error_message]

\* _validate_upload_file or _save_uploaded_file raises: no work flow run
UploadRejected ==
    /\ pc = "validate_image"
    /\ executed = <<>>
    /\ pc' = "responded"
    /\ response' = <<[success |-> FALSE, status |-> "failed",
                      error_message |-> "upload rejected"]>>
    /\ UNCHANGED <<state, settings, vision_client, executed, calls, attempts,
                   producer, failed, result, exception, upload>>
    /\ UNCHANGED <<chunk_vars, chunking_vars, merge_vars, quiz_vars, auth_vars>>

\* process_image has returned: the result is built and the response returned
StudyImageReturns ==
    /\ pc = "returned"
    /\ \E include_quiz \in BOOLEAN, well_formed \in BOOLEAN :
           response' = <<study_session_response(
                            build_processing_result(result[1], settings, include_quiz,
                                                    well_formed),
                            result[1].error_message)>>
    /\ pc' = "responded"
    /\ UNCHANGED <<state, settings, vision_client, executed, calls, attempts,
                   producer, failed, result, exception, upload>>
    /\ UNCHANGED <<chunk_vars, chunking_vars, merge_vars, quiz_vars, auth_vars>>

NextStudy ==
    \/ NextProcessImage
    \/ UploadRejected
    \/ StudyImageReturns

SpecStudy == Init /\ [][NextStudy]_vars

(***************************************************************************)
(* process_chunks_parallel (EnhancedDocumentProcessor)                     *)
(***************************************************************************)
\* the call of a chunk task that raises: the AI call of one of the three
\* generation nodes, or the progress callback
FaultKinds == {"summary", "explanation", "quiz", "callback"}

\* at most one chunk of a run has a raising call
FaultScenarios(n) ==
    {[k \in 1..n |-> "none"]} \cup
    {[k \in 1..n |-> IF k = f THEN kind ELSE "none"] :
        f \in 1..n, kind \in FaultKinds}

\* create_chunks names the chunks chunk_0, chunk_1, ...: the id is the number
ChunkIds(n) == [k \in 1..n |-> k - 1]

\* what a task holds before its first generation call has returned
NoLocal == [summary |-> None, explanation |-> None, quiz |-> None]

\* the workflow has not been started by this call
PipelineIdle ==
    /\ pc = "validate_image"
    /\ state = InitialState
    /\ settings = [QUALITY_THRESHOLD |-> DEFAULT_QUALITY_THRESHOLD,
                   MIN_TEXT_LENGTH   |-> DEFAULT_MIN_TEXT_LENGTH]
    /\ vision_client = FALSE
    /\ executed = <<>>
    /\ calls = <<>>
    /\ attempts = <<>>
    /\ producer = "none"
    /\ failed = {}
    /\ result = <<>>
    /\ exception = None
    /\ upload = SmallFile

\* the state on entry of process_chunks_parallel, after
\* "semaphore = asyncio.Semaphore(max_concurrency)" and "results = []"
InitChunks ==
    /\ NoRest
    /\ PipelineIdle
    /\ NoChunking
    /\ NoMerge
    /\ \E n \in 0..MaxChunks :
        /\ chunks = ChunkIds(n)
        /\ faults \in FaultScenarios(n)
        /\ phase = [k \in 1..n |-> "not created"]
        /\ local = [k \in 1..n |-> NoLocal]
        /\ task_result = [k \in 1..n |-> <<>>]
    /\ max_concurrency \in 1..MaxConcurrency
    /\ semaphore = max_concurrency
    /\ loop = "for"
    /\ batch_start = 0
    /\ results = <<>>
    /\ progress = <<>>
    /\ delays = 0

\* the chunk state of a task: the original state with the chunk's content
\* as extracted text (a chunk is long enough for the generation nodes)
chunk_state ==
    [InitialState EXCEPT !.extracted_text = Str(DEFAULT_MIN_TEXT_LENGTH, 0)]

\* "x or default"
Or(x, default) == IF x = None THEN default ELSE x

\* the generation node catches the raising call and returns its placeholder
process_chunk_summary(raises) ==
    Or(generate_summary_node(chunk_state, raises).summary, "Summary for chunk")

process_chunk_explanation(raises) ==
    Or(generate_explanation_node(chunk_state, raises).explanation,
       "Explanation for chunk")

process_chunk_quiz(raises) ==
    generate_quiz_node(chunk_state, raises).quiz_questions

\* has_math, has_chemical and has_supersub, computed from the content when
\* the DocumentChunk was built: chunks with different contents
chunk_flags(chunk_id) ==
    [has_math     |-> chunk_id % 2 = 0,
     has_chemical |-> TRUE,
     has_supersub |-> chunk_id = 1]

NoFlags == [has_math |-> FALSE, has_chemical |-> FALSE, has_supersub |-> FALSE]

\* the two dicts process_single_chunk returns
success_result(chunk_id, l) ==
    [chunk_id |-> chunk_id, error |-> None, summary |-> l.summary,
     explanation |-> l.explanation, quiz |-> l.quiz,
     flags |-> chunk_flags(chunk_id)]

\* an error dict that has lost the flags of its chunk
error_result_without_flags(chunk_id, e) ==
    [chunk_id |-> chunk_id, error |-> e, summary |-> None,
     explanation |-> None, quiz |-> None, flags |-> NoFlags]

error_result(chunk_id, e) ==
    [chunk_id |-> chunk_id, error |-> e, summary |-> None,
     explanation |-> None, quiz |-> None, flags |-> chunk_flags(chunk_id)]

\* the chunks of the batch that starts at index b: chunks[b:b + max_concurrency]
Min(a, b) == IF a < b THEN a ELSE b
Batch(b) == (b + 1)..Min(b + max_concurrency, Len(chunks))

\* the tasks inside "async with semaphore"
InFlight == {k \in 1..Len(chunks) : phase[k] \in {"summary", "explanation", "quiz"}}

\* "for i in range(0, len(chunks), max_concurrency)": the tasks of the next
\* batch are created and handed to asyncio.gather
StartBatch ==
    /\ loop = "for"
    /\ batch_start < Len(chunks)
    /\ loop' = "gather"
    /\ phase' = [k \in 1..Len(chunks) |->
                    IF k \in Batch(batch_start) THEN "waiting" ELSE phase[k]]
    /\ UNCHANGED <<chunks, max_concurrency, faults, batch_start, semaphore, local,
                   task_result, results, progress, delays>>
    /\ UNCHANGED <<pipeline_vars, chunking_vars, merge_vars, rest_vars>>

\* a task that ignores the semaphore and the batch it belongs to
CanEnter_unguarded(k) == phase[k] \in {"not created", "waiting"}

\* "async with semaphore": a created task enters when the semaphore is free
CanEnter(k) == phase[k] = "waiting" /\ semaphore > 0

Acquire(k) ==
    /\ CanEnter(k)
    /\ semaphore' = semaphore - 1
    /\ phase' = [phase EXCEPT ![k] = "summary"]
    /\ UNCHANGED <<chunks, max_concurrency, faults, loop, batch_start, local,
                   task_result, results, progress, delays>>
    /\ UNCHANGED <<pipeline_vars, chunking_vars, merge_vars, rest_vars>>

\* "summary_result = await self._process_chunk_summary(chunk_state, chunk)"
SummaryReturns(k) ==
    /\ phase[k] = "summary"
    /\ local' = [local EXCEPT
                    ![k].summary = process_chunk_summary(faults[k] = "summary")]
    /\ phase' = [phase EXCEPT ![k] = "explanation"]
    /\ UNCHANGED <<chunks, max_concurrency, faults, loop, batch_start, semaphore,
                   task_result, results, progress, delays>>
    /\ UNCHANGED <<pipeline_vars, chunking_vars, merge_vars, rest_vars>>

\* "explanation_result = await self._process_chunk_explanation(...)"
ExplanationReturns(k) ==
    /\ phase[k] = "explanation"
    /\ local' = [local EXCEPT
                    ![k].explanation =
                        process_chunk_explanation(faults[k] = "explanation")]
    /\ phase' = [phase EXCEPT ![k] = "quiz"]
    /\ UNCHANGED <<chunks, max_concurrency, faults, loop, batch_start, semaphore,
                   task_result, results, progress, delays>>
    /\ UNCHANGED <<pipeline_vars, chunking_vars, merge_vars, rest_vars>>

\* "quiz_result = await self._process_chunk_quiz(...)", the progress callback,
\* the return of the result dict (the error dict when the callback raised) and
\* the release of the semaphore
QuizReturns(k) ==
    /\ phase[k] = "quiz"
    /\ LET l == [local[k] EXCEPT !.quiz = process_chunk_quiz(faults[k] = "quiz")]
       IN /\ local' = [local EXCEPT ![k] = l]
          /\ task_result' = [task_result EXCEPT ![k] =
                <<IF faults[k] = "callback"
                  THEN error_result(chunks[k], "callback failed")
                  ELSE success_result(chunks[k], l)>>]
    /\ progress' = Append(progress, <<k, Len(chunks)>>)
    /\ semaphore' = semaphore + 1
    /\ phase' = [phase EXCEPT ![k] = "done"]
    /\ UNCHANGED <<chunks, max_concurrency, faults, loop, batch_start, results,
                   delays>>
    /\ UNCHANGED <<pipeline_vars, chunking_vars, merge_vars, rest_vars>>

\* the tasks of the batch in the order in which they completed
CompletionOrder(b) == SelectSeq([n \in 1..Len(progress) |-> progress[n][1]],
                                LAMBDA k : k \in Batch(b))

\* a gather that lists the results in the order of completion
gather_as_completed(b) ==
    [j \in 1..Cardinality(Batch(b)) |-> task_result[CompletionOrder(b)[j]][1]]

\* asyncio.gather(*batch_tasks): the results in the order of the tasks
gather(b) == [j \in 1..Cardinality(Batch(b)) |-> task_result[b + j][1]]

\* a list that keeps only the last batch
extend_overwrite(xs, ys) == ys

\* "results.extend(batch_results)"
extend(xs, ys) == xs \o ys

\* a loop that sleeps after every batch
pacing_always(b) == TRUE

\* "if i + max_concurrency < len(chunks)": another batch follows
pacing_needed(b) == b + max_concurrency < Len(chunks)

\* "batch_results = await asyncio.gather(...)" returns when every task of the
\* batch has returned; the loop then sleeps, or goes to the next value of i
GatherReturns ==
    /\ loop = "gather"
    /\ \A k \in Batch(batch_start) : phase[k] = "done"
    /\ results' = extend(results, gather(batch_start))
    /\ IF pacing_needed(batch_start)
       THEN loop' = "sleep" /\ UNCHANGED batch_start
       ELSE loop' = "for" /\ batch_start' = batch_start + max_concurrency
    /\ UNCHANGED <<chunks, max_concurrency, faults, phase, semaphore, local,
                   task_result, progress, delays>>
    /\ UNCHANGED <<pipeline_vars, chunking_vars, merge_vars, rest_vars>>

\* "await asyncio.sleep(1)" is over
SleepReturns ==
    /\ loop = "sleep"
    /\ loop' = "for"
    /\ batch_start' = batch_start + max_concurrency
    /\ delays' = delays + 1
    /\ UNCHANGED <<chunks, max_concurrency, faults, phase, semaphore, local,
                   task_result, results, progress>>
    /\ UNCHANGED <<pipeline_vars, chunking_vars, merge_vars, rest_vars>>

\* "return results" once range(0, len(chunks), max_concurrency) is exhausted
ChunksReturn ==
    /\ loop = "for"
    /\ batch_start >= Len(chunks)
    /\ loop' = "returned"
    /\ UNCHANGED <<chunks, max_concurrency, faults, batch_start, phase, semaphore,
                   local, task_result, results, progress, delays>>
    /\ UNCHANGED <<pipeline_vars, chunking_vars, merge_vars, rest_vars>>

NextChunks ==
    \/ StartBatch
    \/ \E k \in 1..Len(chunks) : Acquire(k)
    \/ \E k \in 1..Len(chunks) : SummaryReturns(k)
    \/ \E k \in 1..Len(chunks) : ExplanationReturns(k)
    \/ \E k \in 1..Len(chunks) : QuizReturns(k)
    \/ GatherReturns
    \/ SleepReturns
    \/ ChunksReturn

SpecChunks == InitChunks /\ [][NextChunks]_vars

\* the event loop runs every task that can run, every AI call returns or
\* raises, and the sleep ends
SpecChunksFair == SpecChunks /\ WF_vars(NextChunks)

(***************************************************************************)
(* create_chunks (EnhancedDocumentProcessor)                               *)
(* A text is a sequence of characters; indices of the source are 0-based.  *)
(***************************************************************************)
\* the characters [a-zA-Z]
Letters == {"a"}

\* body(v) for the value v of an expression, the expression being evaluated once
With(v, body(_)) == CHOOSE r \in {body(x) : x \in {v}} : TRUE

Max(a, b) == IF a > b THEN a ELSE b
MaxOf(S) == With(S, LAMBDA T : CHOOSE x \in T : \A y \in T : y <= x)
MinOf(S) == With(S, LAMBDA T : CHOOSE x \in T : \A y \in T : x <= y)
Rep(c, n) == [k \in 1..n |-> c]

\* a bound of a Python slice: negative bounds count from the end, and every
\* bound is clamped to 0..len
SliceIndex(n, k) ==
    IF k < 0 THEN Max(n + k, 0) ELSE Min(k, n)

\* s[a:b]
Slice(s, a, b) == SubSeq(s, SliceIndex(Len(s), a) + 1, SliceIndex(Len(s), b))

\* sub occurs in s at the 0-based index k
OccursAt(s, sub, k) ==
    /\ k >= 0
    /\ k + Len(sub) <= Len(s)
    /\ SubSeq(s, k + 1, k + Len(sub)) = sub

\* s.rfind(sub, start, end) for 0 <= start and 0 <= end
rfind(s, sub, start, end) ==
    With({k \in start..(Min(end, Len(s)) - Len(sub)) : OccursAt(s, sub, k)},
         LAMBDA hits : IF hits = {} THEN -1 ELSE MaxOf(hits))

\* the separators of the list break_points, in its order
Separators == << <<"\n", "\n">>, <<"\n">>, <<".", " ">>, <<"!", " ">>, <<"?", " ">> >>

break_points(s, start, end) ==
    [n \in 1..Len(Separators) |-> rfind(s, Separators[n], start, end)]

\* a break point is accepted from half of the chunk size on
far_enough_half(bp, start, size) == 10 * bp > 10 * start + 5 * size

\* "bp > start_index + min_chunk_size" with min_chunk_size = chunk_size * 0.7
far_enough(bp, start, size) == 10 * bp > 10 * start + 7 * size

\* a chunk that is one character longer than the chunk size
chunk_end_long(s, start, size) == Min(start + size + 1, Len(s))

\* the end of the chunk that starts at start: the proposed end, moved back to
\* the first break point of the list that is far enough from the start
chunk_end(s, start, size) ==
    LET end == Min(start + size, Len(s))
        best(bps) ==
            LET ok == {n \in 1..Len(bps) : far_enough(bps[n], start, size)}
            IN IF end < Len(s) /\ ok # {} THEN bps[MinOf(ok)] + 1 ELSE end
    IN With(break_points(s, start, end), best)

\* re.search(r'\$[^$]*$', p): p holds a "$"
has_incomplete_math(p) == \E k \in 1..Len(p) : p[k] = "$"

\* the places where the anchor "$" of a pattern matches: the end of p, and
\* the place before a final newline
Anchors(p) ==
    {Len(p)} \cup (IF Len(p) > 0 /\ p[Len(p)] = "\n" THEN {Len(p) - 1} ELSE {})

\* re.search(r'\\[a-zA-Z]*$', p): a backslash followed by letters up to the end
has_incomplete_command(p) ==
    \E e \in Anchors(p) : \E k \in 1..e :
        /\ p[k] = "\\"
        /\ \A j \in (k + 1)..e : p[j] \in Letters

\* where a match of r'\$[^$]+\$|\\[a-zA-Z]+' that starts at the character k
\* of w ends, 0 when there is none
match_end(w, k) ==
    IF w[k] = "$"
    THEN LET next == {j \in (k + 1)..Len(w) : w[j] = "$"}
         IN IF next # {} /\ MinOf(next) >= k + 2 THEN MinOf(next) ELSE 0
    ELSE IF w[k] = "\\"
    THEN LET run == {j \in (k + 1)..Len(w) : \A m \in (k + 1)..j : w[m] \in Letters}
         IN IF run # {} THEN MaxOf(run) ELSE 0
    ELSE 0

\* "complete_match.group(0) + chunk_content[complete_match.end():]" for the
\* leftmost match in the window, the content itself when nothing matches
splice(content, w) ==
    LET spliced(k) ==
            SubSeq(w, k, match_end(w, k)) \o Slice(content, match_end(w, k), Len(content))
    IN With({k \in 1..Len(w) : match_end(w, k) # 0},
            LAMBDA starts : IF starts = {} THEN content ELSE With(MinOf(starts), spliced))

PREFIX_CHECKED == 100
WINDOW_BEFORE == 50
WINDOW_AFTER == 200

\* _preserve_math_at_boundary: for each of the two patterns found in the
\* first characters of the chunk, splice the first complete expression of the
\* window around the chunk start
preserve_math_at_boundary(content, s, start_pos) ==
    LET w  == Slice(s, start_pos - WINDOW_BEFORE, start_pos + WINDOW_AFTER)
        second(c1) == IF has_incomplete_command(Slice(c1, 0, PREFIX_CHECKED))
                      THEN splice(c1, w) ELSE c1
    IN With(IF has_incomplete_math(Slice(content, 0, PREFIX_CHECKED))
            THEN splice(content, w) ELSE content,
            second)

\* DocumentChunk(chunk_id, content, start_index, end_index, overlap_size)
DocumentChunk(chunk_id, content, start, end, overlap) ==
    [chunk_id |-> chunk_id, content |-> content, start_index |-> start,
     end_index |-> end, overlap_size |-> overlap]

\* a create_chunks that never takes the short way
fits_in_one_chunk_never(s, size) == FALSE

\* "if len(text) <= chunk_size"
fits_in_one_chunk(s, size) == Len(s) <= size

\* the chunk built by one turn of the while loop
next_chunk(s, size, overlap, preserve, start, chunk_index) ==
    LET chunk_start == Max(0, start - (IF chunk_index > 0 THEN overlap ELSE 0))
        chunk(end_index) ==
            LET built(content) ==
                    DocumentChunk(chunk_index,
                                  IF preserve /\ chunk_index > 0
                                  THEN preserve_math_at_boundary(content, s, chunk_start)
                                  ELSE content,
                                  chunk_start, end_index,
                                  IF chunk_index > 0 THEN overlap ELSE 0)
            IN With(Slice(s, chunk_start, end_index), built)
    IN With(chunk_end(s, start, size), chunk)

\* the inputs of create_chunks
PlainAlphabet == {"a", "$", "\\"}
PlainTexts == UNION {[1..n -> PlainAlphabet] : n \in 0..MaxPlainText}
PlainInputs ==
    [text : PlainTexts, chunk_size : {1, 2, 3}, overlap_size : {0, 1, 3},
     preserve_math : BOOLEAN]

\* texts of letters with at most two line breaks, split with a chunk size for
\* which a line break can move the end of a chunk
LineTexts ==
    {t \in UNION {[1..n -> {"a", "\n"}] : n \in (MaxLineText - 1)..MaxLineText} :
        Cardinality({k \in 1..Len(t) : t[k] = "\n"}) <= 2}
LineInputs ==
    [text : LineTexts, chunk_size : {7}, overlap_size : {0, 2},
     preserve_math : {TRUE}]

\* texts with separators of every kind around the 70% mark of the first chunk
SepAlphabet == {"a", "\n", ".", " ", "!"}
SepTexts ==
    {Rep("a", 8) \o w \o Rep("a", 3) : w \in [1..BreakWindow -> SepAlphabet]}
SepInputs ==
    [text : SepTexts, chunk_size : {14}, overlap_size : {2},
     preserve_math : {FALSE}]

ChunkingInputs == PlainInputs \cup LineInputs \cup SepInputs

InitChunking ==
    /\ NoRest
    /\ PipelineIdle
    /\ NoChunkProcessing
    /\ NoMerge
    /\ \E in \in ChunkingInputs :
        /\ full_text = in.text
        /\ chunk_size = in.chunk_size
        /\ overlap_size = in.overlap_size
        /\ preserve_math = in.preserve_math
    /\ start_index = 0
    /\ doc_chunks = <<>>
    /\ cc_pc = "entry"

\* the test on entry: a short text is returned as the single chunk_0
CreateChunksEntry ==
    /\ cc_pc = "entry"
    /\ IF fits_in_one_chunk(full_text, chunk_size)
       THEN /\ doc_chunks' = <<DocumentChunk(0, full_text, 0, Len(full_text), 0)>>
            /\ cc_pc' = "returned"
       ELSE /\ doc_chunks' = <<>>
            /\ cc_pc' = "while"
    /\ UNCHANGED <<full_text, chunk_size, overlap_size, preserve_math, start_index>>
    /\ UNCHANGED <<pipeline_vars, chunk_vars, merge_vars, rest_vars>>

\* a loop that starts the next chunk inside the overlap
ChunkLoop_rewinding ==
    /\ cc_pc = "while"
    /\ start_index < Len(full_text)
    /\ LET chunk == next_chunk(full_text, chunk_size, overlap_size, preserve_math,
                               start_index, Len(doc_chunks))
       IN /\ doc_chunks' = Append(doc_chunks, chunk)
          /\ start_index' = chunk.end_index - chunk.overlap_size
    /\ UNCHANGED <<full_text, chunk_size, overlap_size, preserve_math, cc_pc>>
    /\ UNCHANGED <<pipeline_vars, chunk_vars, merge_vars, rest_vars>>

\* one turn of "while start_index < len(text)"
ChunkLoop ==
    /\ cc_pc = "while"
    /\ start_index < Len(full_text)
    /\ LET chunk == next_chunk(full_text, chunk_size, overlap_size, preserve_math,
                               start_index, Len(doc_chunks))
       IN /\ doc_chunks' = Append(doc_chunks, chunk)
          /\ start_index' = chunk.end_index
    /\ UNCHANGED <<full_text, chunk_size, overlap_size, preserve_math, cc_pc>>
    /\ UNCHANGED <<pipeline_vars, chunk_vars, merge_vars, rest_vars>>

\* "return chunks"
CreateChunksReturns ==
    /\ cc_pc = "while"
    /\ start_index >= Len(full_text)
    /\ cc_pc' = "returned"
    /\ UNCHANGED <<full_text, chunk_size, overlap_size, preserve_math, start_index,
                   doc_chunks>>
    /\ UNCHANGED <<pipeline_vars, chunk_vars, merge_vars, rest_vars>>

NextChunking ==
    \/ CreateChunksEntry
    \/ ChunkLoop
    \/ CreateChunksReturns

SpecChunking == InitChunking /\ [][NextChunking]_vars

\* create_chunks is a loop without awaits: once called it keeps running
SpecChunkingFair == SpecChunking /\ WF_vars(NextChunking)

(***************************************************************************)
(* merge_chunk_results (EnhancedDocumentProcessor)                         *)
(* A question text is its wording (0 for no wording), written in upper or  *)
(* lower case, with or without surrounding blanks.                         *)
(***************************************************************************)
QuestionText(base, upper, padded) == [base |-> base, upper |-> upper, padded |-> padded]

\* str.strip() and str.lower() on a question text
strip(t) == [t EXCEPT !.padded = FALSE]
lower(t) == [t EXCEPT !.upper = FALSE]

\* a normalisation that keeps the case
normalize_keeping_case(t) == strip(t)

\* "question.get('question', '').strip().lower()"
normalize(t) == lower(strip(t))

\* the truth value of a question text: it has characters
has_characters(t) == t.base # 0 \/ t.padded

\* an item of a quiz list: a dict with its question text, or something else;
\* origin tells the items apart: <<chunk_id, place in the quiz of the chunk>>
Question(is_dict, t, origin) == [is_dict |-> is_dict, question |-> t, origin |-> origin]

\* the truth value of a str, None being the value of a missing key
truthy(x) == x # None /\ x # ""

\* _deduplicate_quiz_questions, with the set of the texts seen so far
RECURSIVE deduplicate(_, _)
deduplicate(questions, seen) ==
    IF questions = <<>> THEN <<>>
    ELSE LET q == Head(questions)
             keep == /\ q.is_dict
                     /\ has_characters(normalize(q.question))
                     /\ normalize(q.question) \notin seen
         IN IF keep
            THEN <<q>> \o deduplicate(Tail(questions), seen \cup {normalize(q.question)})
            ELSE deduplicate(Tail(questions), seen)

deduplicate_quiz_questions(questions) == deduplicate(questions, {})

\* a piece of a merged document: the title line, a numbered header line, the
\* text of one chunk, or the sentence that stands for "nothing to merge"
Block(kind, n, t) == [kind |-> kind, n |-> n, text |-> t]

\* the numbered sections of the texts from the place k on
RECURSIVE sections(_, _)
sections(texts, k) ==
    IF k > Len(texts) THEN <<>>
    ELSE <<Block("header", k, ""), Block("body", 0, texts[k])>> \o sections(texts, k + 1)

\* _merge_summaries and _merge_explanations: no text, one text, several texts
merge_texts(texts, title, nothing) ==
    IF Len(texts) = 0 THEN <<Block("nothing", 0, nothing)>>
    ELSE IF Len(texts) = 1 THEN <<Block("body", 0, texts[1])>>
    ELSE <<Block("title", 0, title)>> \o sections(texts, 1)

merge_summaries(summaries) ==
    merge_texts(summaries, "## Document Summary", "No summary could be generated.")

merge_explanations(explanations) ==
    merge_texts(explanations, "## Detailed Explanation",
                "No explanation could be generated.")

\* [f(r) for r in rs if test(r)]
pick(rs, test(_), f(_)) ==
    LET chosen == SelectSeq(rs, test)
    IN [k \in 1..Len(chosen) |-> f(chosen[k])]

\* the quiz lists of the results, one after the other (the quiz of every
\* result is a list)
RECURSIVE pool(_)
pool(rs) ==
    IF rs = <<>> THEN <<>>
    ELSE Head(rs).quiz \o pool(Tail(rs))

MAX_MERGED_QUIZ == 15

\* "'error' not in r"
is_successful(r) == r.error = None
same(r) == r
summary_of(r) == r.summary
explanation_of(r) == r.explanation
has_summary(r) == truthy(r.summary)
has_explanation(r) == truthy(r.explanation)

count(rs, test(_)) == Cardinality({k \in 1..Len(rs) : test(rs[k])})
is_math(r) == r.flags.has_math
is_chemical(r) == r.flags.has_chemical
is_supersub(r) == r.flags.has_supersub

\* merge_chunk_results(chunks, chunk_results), total being len(chunks)
merge_chunk_results(total, rs) ==
    LET successful_results == pick(rs, is_successful, same)
    IN [merged_summary |->
            merge_summaries(pick(successful_results, has_summary, summary_of)),
        merged_explanation |->
            merge_explanations(pick(successful_results, has_explanation,
                                    explanation_of)),
        merged_quiz |->
            Slice(deduplicate_quiz_questions(pool(successful_results)),
                  0, MAX_MERGED_QUIZ),
        chunk_statistics |->
            [total_chunks      |-> total,
             successful_chunks |-> Len(successful_results),
             failed_chunks     |-> total - Len(successful_results),
             math_chunks       |-> count(rs, is_math),
             chemical_chunks   |-> count(rs, is_chemical),
             supersub_chunks   |-> count(rs, is_supersub)],
        processing_metadata |-> [chunked_processing |-> TRUE, chunk_results |-> rs]]

\* a merge that removes the error results from the list it was given
chunk_results_after_merge_filtered(rs) == pick(rs, is_successful, same)

\* the list chunk_results after a call: the function assigns to no entry and
\* calls no method that changes the list
chunk_results_after_merge(rs) == rs

\* the results a chunk can have: three questions of its own; an empty summary
\* and questions that repeat those of chunk_0 in another case or with blanks;
\* an error result that carries texts and questions all the same; a quiz with
\* an item that is no dict, a blank question and a repeated question
own_quiz(id) ==
    [k \in 1..3 |-> Question(TRUE, QuestionText(3 * id + k, FALSE, FALSE), <<id, k>>)]

repeating_quiz(id) ==
    <<Question(TRUE, QuestionText(1, TRUE, FALSE), <<id, 1>>),
      Question(TRUE, QuestionText(2, FALSE, TRUE), <<id, 2>>),
      Question(TRUE, QuestionText(3 * id + 3, TRUE, TRUE), <<id, 3>>)>>

odd_quiz(id) ==
    <<Question(FALSE, QuestionText(3 * id + 1, FALSE, FALSE), <<id, 1>>),
      Question(TRUE, QuestionText(0, FALSE, TRUE), <<id, 2>>),
      Question(TRUE, QuestionText(3 * id + 2, FALSE, FALSE), <<id, 3>>),
      Question(TRUE, QuestionText(3 * id + 2, TRUE, FALSE), <<id, 4>>)>>

ChunkResult(id, error, summary, explanation, quiz) ==
    [chunk_id |-> id, error |-> error, summary |-> summary,
     explanation |-> explanation, quiz |-> quiz, flags |-> chunk_flags(id)]

ResultKinds == {"own", "repeating", "error", "odd"}

ResultOf(id, kind) ==
    CASE kind = "own" ->
            ChunkResult(id, None, "S" \o ToString(id), "E" \o ToString(id), own_quiz(id))
      [] kind = "repeating" ->
            ChunkResult(id, None, "", "E" \o ToString(id), repeating_quiz(id))
      [] kind = "error" ->
            ChunkResult(id, "failed", "S" \o ToString(id), "E" \o ToString(id),
                        own_quiz(id))
      [] kind = "odd" ->
            ChunkResult(id, None, "S" \o ToString(id), None, odd_quiz(id))

\* the list chunk_results with one result of the given kind for each chunk
MergeInput(kinds) == [k \in 1..Len(kinds) |-> ResultOf(k - 1, kinds[k])]

InitMerge ==
    /\ NoRest
    /\ PipelineIdle
    /\ NoChunkProcessing
    /\ NoChunking
    /\ \E n \in 0..MaxResults :
           \E kinds \in [1..n -> ResultKinds] : chunk_results = MergeInput(kinds)
    /\ merge_input = chunk_results
    /\ merged = <<>>

\* one call of merge_chunk_results on the list; at most two calls
MergeCall ==
    /\ Len(merged) < 2
    /\ merged' = Append(merged, merge_chunk_results(Len(chunk_results), chunk_results))
    /\ chunk_results' = chunk_results_after_merge(chunk_results)
    /\ UNCHANGED merge_input
    /\ UNCHANGED <<pipeline_vars, chunk_vars, chunking_vars, rest_vars>>

NextMerge == MergeCall

SpecMerge == InitMerge /\ [][NextMerge]_vars

(***************************************************************************)
(* merge_chunk_results on the list process_chunks_parallel returned        *)
(***************************************************************************)
\* the list "quiz_state.quiz_questions[:3]" of a chunk: no question, or the
\* first three questions of the quiz that was parsed or made by the fallback
quiz_list(chunk_id, quiz) ==
    IF quiz \in {None, "empty"} THEN <<>> ELSE Slice(own_quiz(chunk_id), 0, 3)

\* the dict of a chunk with its quiz written out as a list
result_dict(r) == [r EXCEPT !.quiz = quiz_list(r.chunk_id, r.quiz)]

\* merge_chunk_results(chunks, results) once process_chunks_parallel returned
MergeResults ==
    /\ loop = "returned"
    /\ merged = <<>>
    /\ LET rs == [k \in 1..Len(results) |-> result_dict(results[k])]
       IN /\ merge_input' = rs
          /\ chunk_results' = chunk_results_after_merge(rs)
          /\ merged' = <<merge_chunk_results(Len(chunks), rs)>>
    /\ UNCHANGED <<pipeline_vars, chunk_vars, chunking_vars, rest_vars>>

NextChunksMerge ==
    \/ NextChunks
    \/ MergeResults

SpecChunksMerge == InitChunks /\ [][NextChunksMerge]_vars

(***************************************************************************)
(* _generate_fallback_quiz (StudyHelperWorkflow)                           *)
(* A text is the list text.split('. ') of its sentences; a sentence is     *)
(* known by its length after strip(), the whitespace strip() removes, its  *)
(* words and those of its words that can be blanked out.                   *)
(***************************************************************************)
Sentence(len, pad, words, key_words) ==
    [len |-> len, pad |-> pad, words |-> words, key_words |-> key_words]

\* the empty sentence, a blank one, one of exactly 20 characters, one of 5
\* words, one without a word to blank out, and one that gives a question
SentenceKinds ==
    {Sentence(0, 0, 0, 0), Sentence(0, 1, 0, 0), Sentence(20, 0, 6, 1),
     Sentence(21, 1, 5, 1), Sentence(22, 0, 6, 0), Sentence(21, 0, 6, 1)}

\* the truth value of the text: '' is the only text that is false
text_truthy(t) == ~(Len(t) = 1 /\ t[1].len + t[1].pad = 0)

fill_in_blank(n) ==
    [question_type |-> "fill_in_blank", difficulty |-> "medium", sentence |-> n]

comprehension ==
    [question_type |-> "short_answer", difficulty |-> "easy", sentence |-> 0]

\* "len(sentence) > 20", "len(words) > 5" and "if key_words"
gives_question(s) == s.len > 20 /\ s.words > 5 /\ s.key_words > 0

\* a loop over all the sentences
first_sentences_all(t) == DOMAIN t

\* the indices of "sentences[:5]"
first_sentences(t) == 1..Min(5, Len(t))

RECURSIVE fill_questions(_, _, _)
fill_questions(t, n, last) ==
    IF n > last THEN <<>>
    ELSE (IF n \in first_sentences(t) /\ gives_question(t[n])
          THEN <<fill_in_blank(n)>> ELSE <<>>) \o fill_questions(t, n + 1, last)

generate_fallback_quiz(t) ==
    LET quiz_questions == fill_questions(t, 1, Len(t))
    IN IF text_truthy(t) /\ Len(quiz_questions) < 3
       THEN Append(quiz_questions, comprehension)
       ELSE quiz_questions

InitFallback ==
    /\ NoStudy
    /\ NoAuth
    /\ PipelineIdle
    /\ NoChunkProcessing
    /\ NoChunking
    /\ NoMerge
    /\ \E n \in 1..MaxSentences : fb_text \in [1..n -> SentenceKinds]
    /\ fb_quiz = <<>>

\* "return quiz_questions"
FallbackQuizReturns ==
    /\ fb_quiz = <<>>
    /\ fb_text # <<>>
    /\ fb_quiz' = <<generate_fallback_quiz(fb_text)>>
    /\ UNCHANGED <<fb_text, study_vars, auth_vars>>
    /\ UNCHANGED <<pipeline_vars, chunk_vars, chunking_vars, merge_vars>>

NextFallback == FallbackQuizReturns

SpecFallback == InitFallback /\ [][NextFallback]_vars

(***************************************************************************)
(* AuthService, get_current_user and the tables users and user_sessions    *)
(* A token is known by its subject, its jti and its type; whether its      *)
(* expiry time has passed is an input of the call that verifies it.        *)
(***************************************************************************)
Emails == {"ann@mail", "bob@mail"}
Passwords == {"secret", "guess"}

\* bcrypt: a hash verifies exactly the password it was made from
hash_password(password) == "$2b$" \o password
verify_password(password, password_hash) == password_hash = hash_password(password)

User(auth_provider, password_hash, status, is_active, is_email_verified) ==
    [auth_provider |-> auth_provider, password_hash |-> password_hash,
     status |-> status, is_active |-> is_active,
     is_email_verified |-> is_email_verified]

\* the accounts of a run: registered by email and verified, registered by
\* email and not yet verified, registered through Google (no password hash),
\* and a Google account that was deactivated
AccountKinds ==
    {User("email", hash_password("secret"), "active", TRUE, TRUE),
     User("email", hash_password("secret"), "pending_email_verification",
          TRUE, FALSE),
     User("google", None, "active", TRUE, TRUE),
     User("google", None, "active", FALSE, TRUE)}

\* User.can_login
can_login(user) ==
    user.status \in {"active"} /\ user.is_active /\ user.is_email_verified

\* UserSession.is_valid; expired stands for "expires_at <= now"
is_valid(session) ==
    session.is_active /\ (~session.is_revoked) /\ ~session.expired

create_access_token(sub, jti) == [sub |-> sub, jti |-> jti, type |-> "access"]
create_refresh_token(sub, jti) == [sub |-> sub, jti |-> jti, type |-> "refresh"]

\* _create_user_session; issued records every token created for the session
create_user_session(email, access_token, refresh_token) ==
    [user_id |-> email, refresh_token |-> refresh_token,
     access_token_jti |-> access_token.jti, is_active |-> TRUE,
     is_revoked |-> FALSE, expired |-> FALSE,
     issued |-> {access_token, refresh_token}]

\* every token that was ever returned to a client
IssuedTokens == UNION {sessions[i].issued : i \in DOMAIN sessions}

\* "query(UserSession).filter(UserSession.refresh_token == token).first()":
\* the set of the row found (the column is unique)
SessionOf(token) == {i \in DOMAIN sessions : sessions[i].refresh_token = token}

Call(op, email, password, token, accepted) ==
    [op |-> op, email |-> email, password |-> password, token |-> token,
     accepted |-> accepted]

\* login_user raises 401 or returns the new tokens and the session
login_user_raises(email, password) ==
    \/ email \notin DOMAIN accounts
    \/ /\ accounts[email].auth_provider = "email"
       /\ \/ accounts[email].password_hash = None
          \/ ~verify_password(password, accounts[email].password_hash)
    \/ ~can_login(accounts[email])

LoginUser(email, password) ==
    /\ next_jti + 2 <= MaxJti
    /\ IF login_user_raises(email, password)
       THEN /\ last_call' = Call("login_user", email, password, NoToken, FALSE)
            /\ UNCHANGED <<sessions, next_jti>>
       ELSE /\ sessions' = Append(sessions,
                    create_user_session(email,
                                        create_access_token(email, next_jti),
                                        create_refresh_token(email, next_jti + 1)))
            /\ next_jti' = next_jti + 2
            /\ last_call' = Call("login_user", email, password, NoToken, TRUE)
    /\ UNCHANGED accounts
    /\ UNCHANGED <<pipeline_vars, chunk_vars, chunking_vars, merge_vars, quiz_vars,
                   study_vars>>

\* refresh_tokens raises 401 or rotates the tokens of the session
refresh_tokens_raises(token) ==
    \/ SessionOf(token) = {}
    \/ \E i \in SessionOf(token) :
          \/ ~is_valid(sessions[i])
          \/ sessions[i].user_id \notin DOMAIN accounts
          \/ ~can_login(accounts[sessions[i].user_id])

RefreshTokens(token) ==
    /\ next_jti + 2 <= MaxJti
    /\ IF refresh_tokens_raises(token)
       THEN /\ last_call' = Call("refresh_tokens", "", "", token, FALSE)
            /\ UNCHANGED <<sessions, next_jti>>
       ELSE /\ \E i \in SessionOf(token) :
                LET sub == sessions[i].user_id
                    new_access_token == create_access_token(sub, next_jti)
                    new_refresh_token == create_refresh_token(sub, next_jti + 1)
                IN sessions' = [sessions EXCEPT
                        ![i].refresh_token = new_refresh_token,
                        ![i].access_token_jti = new_access_token.jti,
                        ![i].expired = FALSE,
                        ![i].issued = @ \cup {new_access_token, new_refresh_token}]
            /\ next_jti' = next_jti + 2
            /\ last_call' = Call("refresh_tokens", "", "", token, TRUE)
    /\ UNCHANGED accounts
    /\ UNCHANGED <<pipeline_vars, chunk_vars, chunking_vars, merge_vars, quiz_vars,
                   study_vars>>

\* "session.is_active = False; session.is_revoked = True"
revoke(session) == [session EXCEPT !.is_active = FALSE, !.is_revoked = TRUE]

\* logout_user: the session with that refresh token, if any, is revoked
LogoutUser(token) ==
    /\ sessions' = [i \in DOMAIN sessions |->
                       IF i \in SessionOf(token) THEN revoke(sessions[i])
                       ELSE sessions[i]]
    /\ last_call' = Call("logout_user", "", "", token, SessionOf(token) # {})
    /\ UNCHANGED <<accounts, next_jti>>
    /\ UNCHANGED <<pipeline_vars, chunk_vars, chunking_vars, merge_vars, quiz_vars,
                   study_vars>>

\* logout_all_sessions: the active, unrevoked sessions of the user are revoked
LogoutAllSessions(email) ==
    /\ sessions' = [i \in DOMAIN sessions |->
                       IF /\ sessions[i].user_id = email
                          /\ sessions[i].is_active
                          /\ ~sessions[i].is_revoked
                       THEN revoke(sessions[i]) ELSE sessions[i]]
    /\ last_call' = Call("logout_all_sessions", email, "", NoToken, TRUE)
    /\ UNCHANGED <<accounts, next_jti>>
    /\ UNCHANGED <<pipeline_vars, chunk_vars, chunking_vars, merge_vars, quiz_vars,
                   study_vars>>

\* verify_token(token, "access") and the checks of get_current_user
get_current_user_raises(token, token_expired) ==
    \/ token.type # "access"
    \/ token_expired
    \/ token.sub \notin DOMAIN accounts
    \/ ~can_login(accounts[token.sub])

GetCurrentUser(token) ==
    /\ \E token_expired \in BOOLEAN :
          last_call' = Call("get_current_user", "", "", token,
                       ~get_current_user_raises(token, token_expired))
    /\ UNCHANGED <<accounts, sessions, next_jti>>
    /\ UNCHANGED <<pipeline_vars, chunk_vars, chunking_vars, merge_vars, quiz_vars,
                   study_vars>>

\* time passes the expires_at of a session
SessionExpires(i) ==
    /\ ~sessions[i].expired
    /\ sessions' = [sessions EXCEPT ![i].expired = TRUE]
    /\ last_call' = NoCall
    /\ UNCHANGED <<accounts, next_jti>>
    /\ UNCHANGED <<pipeline_vars, chunk_vars, chunking_vars, merge_vars, quiz_vars,
                   study_vars>>

InitAuth ==
    /\ NoFallbackQuiz
    /\ NoStudy
    /\ PipelineIdle
    /\ NoChunkProcessing
    /\ NoChunking
    /\ NoMerge
    /\ accounts \in [Emails -> AccountKinds]
    /\ sessions = <<>>
    /\ next_jti = 0
    /\ last_call = NoCall

NextAuth ==
    \/ \E email \in Emails \cup {"eve@mail"}, password \in Passwords :
          LoginUser(email, password)
    \/ \E token \in IssuedTokens : RefreshTokens(token)
    \/ \E token \in IssuedTokens : LogoutUser(token)
    \/ \E email \in Emails : LogoutAllSessions(email)
    \/ \E token \in IssuedTokens : GetCurrentUser(token)
    \/ \E i \in DOMAIN sessions : SessionExpires(i)

SpecAuth == InitAuth /\ [][NextAuth]_vars

\* the dict the task of chunk k returns, as a function of the run's inputs
ExpectedResult(k) ==
    IF faults[k] = "callback"
    THEN error_result(chunks[k], "callback failed")
    ELSE success_result(chunks[k],
            [summary     |-> process_chunk_summary(faults[k] = "summary"),
             explanation |-> process_chunk_explanation(faults[k] = "explanation"),
             quiz        |-> process_chunk_quiz(faults[k] = "quiz")])

TypeOKChunks ==
    /\ loop \in {"for", "gather", "sleep", "returned"}
    /\ semaphore \in 0..max_concurrency
    /\ semaphore = max_concurrency - Cardinality(InFlight)
    /\ batch_start \in 0..(Len(chunks) + max_concurrency)
    /\ Len(results) <= Len(chunks)
    /\ \A k \in 1..Len(chunks) :
           /\ phase[k] \in {"not created", "waiting", "summary", "explanation",
                            "quiz", "done"}
           /\ Len(task_result[k]) = (IF phase[k] = "done" THEN 1 ELSE 0)

TypeOK ==
    /\ pc \in {"validate_image", "assess_quality", "classify_content",
               "route_processing", "preprocess_image", "extract_text",
               "generate_summary", "generate_explanation", "generate_quiz",
               "finalize_results", "END", "returned", "responded"}
    /\ state.should_proceed \in BOOLEAN
    /\ state.needs_preprocessing \in BOOLEAN
    /\ state.quality_score \in 0..100 \cup {None_float}
    /\ state.processing_tool_used \in ProcessingTool \cup {None}

(***************************************************************************)
(* Properties of the pipeline                                              *)
(***************************************************************************)
\* node has run in this pipeline run
Ran(node) == \E i \in DOMAIN executed : executed[i] = node

\* the nodes that ran after the first run of node
After(node) ==
    LET first == CHOOSE i \in DOMAIN executed :
                     /\ executed[i] = node
                     /\ \A j \in 1..(i - 1) : executed[j] # node
    IN SubSeq(executed, first + 1, Len(executed))

GenerationNodes == {"generate_summary", "generate_explanation", "generate_quiz"}

\* the error messages that contain the words "too low"
MentionsTooLow(msg) == msg \in {"Image quality too low for processing"}

\* C1: every run of the pipeline graph, whatever the stage outcomes, executes
\* finalize_results before it reaches END.
C1_FinalizeBeforeEnd == Ended => Ran("finalize_results")

\* C2: once should_proceed is false, no stage performs an external AI/OCR
\* call for the rest of the run (the list of performed calls stops growing).
C2_NoCallAfterStop == [][(~state.should_proceed) => calls' = calls]_vars

\* a run stopped by validate_image has passed assess_quality and
\* classify_content and reached END without a single external call
C2_Witness ==
    /\ Ended
    /\ ~state.should_proceed
    /\ Ran("assess_quality") /\ Ran("classify_content")
    /\ calls = <<>>

\* C3: once should_proceed is false, every later stage leaves the state as it
\* is except for the timing bookkeeping, so the error_message of the stage
\* that stopped the run is the error_message of the final state.
C3_StoppedStateFrozen ==
    [][(~state.should_proceed) =>
          state' = [state EXCEPT !.processing_time = state'.processing_time]]_vars

\* C4: when the quality stage yields a score below 0.2, routing stops the run
\* with an error that mentions "too low" and neither preprocess_image,
\* extract_text nor a generation stage runs; a score of 0.2 or more is never
\* stopped by routing.
C4_LowQualityHardStop ==
    (Ran("route_processing") /\ state.quality_score # None_float) =>
        IF state.quality_score < 20
        THEN /\ ~state.should_proceed
             /\ MentionsTooLow(state.error_message)
             /\ ~Ran("preprocess_image") /\ ~Ran("extract_text")
             /\ \A g \in GenerationNodes : ~Ran(g)
             /\ calls = <<"quality_vision", "basic_ocr", "content_classification">>
        ELSE state.should_proceed

\* a run whose score is just below the floor has been routed to END
C4_Witness ==
    /\ Ended
    /\ Ran("route_processing")
    /\ state.quality_score = 19
    /\ ~state.should_proceed

\* the decision table of the claim C5
C5_NeedsPreprocessing ==
    state.needs_preprocessing <=>
        (state.quality_classification = "low" \/ state.quality_score < settings.QUALITY_THRESHOLD)

C5_Backend ==
    CASE state.content_type = "handwritten_text" -> "trocr"
      [] state.content_type = "diagram"          -> "gemini_vision"
      [] OTHER                                   -> "google_vision"

\* C5 as claimed: after routing a classified image, needs_preprocessing is
\* true iff the classification is LOW or the score is below the threshold,
\* and the backend is the one the content type selects.
C5_RoutingTable ==
    (Ran("route_processing") /\ state.quality_score # None_float) =>
        /\ C5_NeedsPreprocessing
        /\ state.processing_tool_used = C5_Backend

\* C5 as amended: the outputs are the function of the inputs given here;
\* should_proceed is true iff the score is at least 0.2, and the backend is
\* selected by the content type only when routing does not hard-stop: at a
\* hard stop no backend is selected.
C5_RoutingTableAmended ==
    (Ran("route_processing") /\ state.quality_score # None_float) =>
        /\ C5_NeedsPreprocessing
        /\ state.should_proceed <=> (state.quality_score >= 20)
        /\ state.processing_tool_used =
               IF state.quality_score >= 20 THEN C5_Backend ELSE None

\* a diagram of medium classification with a score below the threshold has
\* been routed: preprocessing is set and the vision LLM is the backend
C5_Witness ==
    /\ Ran("route_processing")
    /\ state.content_type = "diagram"
    /\ state.quality_classification = "medium"
    /\ state.quality_score = 59
    /\ state.needs_preprocessing
    /\ state.processing_tool_used = "gemini_vision"

\* C6: routing has exactly the three successors END (should_proceed false,
\* whatever needs_preprocessing is), preprocess_image (both true) and
\* extract_text; preprocess_image is followed by extract_text; every other
\* stage has at most two successors.
C6_RouteBranches ==
    [][/\ pc = "route_processing" =>
            pc' = IF ~state'.should_proceed THEN "END"
                  ELSE IF state'.needs_preprocessing THEN "preprocess_image"
                  ELSE "extract_text"
       /\ pc = "preprocess_image" => pc' = "extract_text"
       /\ pc = "validate_image" => pc' = "assess_quality"
       /\ pc = "assess_quality" => pc' = "classify_content"
       /\ pc = "classify_content" => pc' = "route_processing"
       /\ pc = "extract_text" => pc' \in {"generate_summary", "finalize_results"}
       /\ pc = "generate_summary" => pc' = "generate_explanation"
       /\ pc = "generate_explanation" => pc' = "generate_quiz"
       /\ pc = "generate_quiz" => pc' = "finalize_results"
       /\ pc = "finalize_results" => pc' = "END"]_vars

\* routing has taken the end path although needs_preprocessing is set
C6_Witness ==
    /\ Ended
    /\ executed[Len(executed)] = "route_processing"
    /\ ~state.should_proceed
    /\ state.needs_preprocessing

\* C7: after extract_text the three generation stages run, in order and once
\* each, iff the stripped extracted text has at least the configured
\* MIN_TEXT_LENGTH characters; otherwise the run goes straight to
\* finalize_results.
C7_GenerationIffMinLength ==
    (Ended /\ Ran("extract_text")) =>
        After("extract_text") =
            IF (~state.extracted_text.none)
               /\ PyLen(Strip(state.extracted_text)) >= settings.MIN_TEXT_LENGTH
            THEN <<"generate_summary", "generate_explanation", "generate_quiz",
                   "finalize_results">>
            ELSE <<"finalize_results">>

\* C8: when the backend preferred by routing does not yield text, extract_text
\* goes on to a next backend.
C8_FallsThrough ==
    (Ran("extract_text") /\ producer # attempts[1]) => Len(attempts) > 1

\* C9: the tool recorded in the state names the backend that produced the
\* extracted text.
C9_ToolNamesProducer ==
    (Ran("extract_text") /\ producer # "none") => state.processing_tool_used = producer

\* C10: when no backend yields text, the extracted text is empty, its
\* confidence is 0.0 and the generation stages are skipped; a confidence above
\* 0.0 goes with text that a backend extracted.
C10_NoTextNoConfidence ==
    (Ran("extract_text") /\ producer = "none") =>
        /\ PyLen(Strip(state.extracted_text)) = 0
        /\ state.extraction_confidence = 0
        /\ \A g \in GenerationNodes : ~Ran(g)

\* the stripped extracted text is shorter than the configured minimum
C11_ShortText ==
    /\ Ran("extract_text")
    /\ ~state.extracted_text.none
    /\ state.extracted_text.core < settings.MIN_TEXT_LENGTH

C12_EmptyTextSummary ==
    (Ended /\ Ran("extract_text") /\ state.extracted_text = EmptyStr) =>
        /\ state.summary = "No sufficient text found for summary generation."
        /\ state.quiz_questions = "empty"

\* C14: when the AI call of a generation stage raises, summary (explanation)
\* is the placeholder with the error, quiz_questions is the fallback quiz,
\* should_proceed is untouched and the remaining generation stages and
\* finalize_results run.
C14_GenerationFaultIsolated ==
    /\ "generate_summary" \in failed => state.summary = "Summary generation failed"
    /\ "generate_explanation" \in failed =>
           state.explanation = "Explanation generation failed"
    /\ "generate_quiz" \in failed => state.quiz_questions = "fallback"
    /\ (failed \cap GenerationNodes # {}) =>
           /\ state.should_proceed
           /\ Ended => After("extract_text") =
                          <<"generate_summary", "generate_explanation",
                            "generate_quiz", "finalize_results">>

\* a run in which all three generation calls raised has ended
C14_Witness ==
    /\ Ended
    /\ GenerationNodes \subseteq failed
    /\ state.quiz_questions = "fallback"
    /\ Ran("finalize_results")

\* C15: when the quality or the content classifier fails (the call raises or
\* the answer is not a valid classification), the stage stores its default
\* (0.3 and LOW; MIXED and 0.5), should_proceed stays true and the run is not
\* stopped by routing on account of the failure: it reaches extract_text.
C15_ClassifierFailureNotFatal ==
    /\ "assess_quality" \in failed =>
           /\ state.quality_score = 30
           /\ state.quality_classification = "low"
    /\ "classify_content" \in failed =>
           /\ state.content_type = "mixed"
           /\ state.content_confidence = 50
    /\ (failed \cap {"assess_quality", "classify_content"} # {}
            /\ state.quality_score >= 20) =>
           /\ state.should_proceed
           /\ Ended => Ran("extract_text")

\* a run whose two classifiers both failed has gone through extract_text
C15_Witness ==
    /\ Ended
    /\ {"assess_quality", "classify_content"} \subseteq failed
    /\ Ran("extract_text")
    /\ state.should_proceed

\* C16: once assess_quality has had a response from the AI, the score is in
\* [0.0, 1.0], the classification is HIGH, MEDIUM or LOW and there are at
\* most five issues.
C16_QualityInRange ==
    (\E i \in DOMAIN calls : calls[i] = "quality_vision") =>
        /\ state.quality_score \in 0..100
        /\ state.quality_classification \in {"high", "medium", "low"}
        /\ Len(state.quality_issues) <= 5

\* a response with more than five issues has been stored, cut to five
C16_Witness ==
    /\ Ran("assess_quality")
    /\ Len(state.quality_issues) = 5
    /\ state.quality_score = 60

\* C17: preprocess_image changes image_data only when needs_preprocessing is
\* set; when a preprocessing step raises, the state (image_data and the error
\* fields with it) is as before and the run goes on to extract_text.
C17_PreprocessFrame ==
    [][pc = "preprocess_image" =>
          /\ pc' = "extract_text"
          /\ state'.image_data # state.image_data => state.needs_preprocessing
          /\ "preprocess_image" \in failed' => state' = state
          /\ state'.error_message = state.error_message
          /\ state'.should_proceed = state.should_proceed]_vars

\* preprocessing raised and extract_text has run on the original image
C17_Witness ==
    /\ "preprocess_image" \in failed
    /\ Ran("extract_text")
    /\ state.image_data = "original"

\* C13: when running the workflow raises, process_image returns a state
\* with should_proceed false whose error_message carries the exception's
\* message; process_image always returns a state.
C13_ProcessImageCatches ==
    /\ pc = "returned" => Len(result) = 1
    /\ exception # None =>
           /\ pc = "returned"
           /\ ~result[1].should_proceed
           /\ result[1].error_message = "Workflow failed: " \o exception

\* the graph raised after extract_text had run and process_image returned
C13_Witness ==
    /\ pc = "returned"
    /\ exception = "Recursion limit reached"
    /\ Ran("extract_text")
    /\ ~result[1].should_proceed

\* C18: with max_concurrency = N, in every interleaving of the chunk tasks
\* at most N tasks are inside their processing section at any moment.
C18_AtMostNInFlight == Cardinality(InFlight) <= max_concurrency

\* the second batch of a run with N = 2 has both of its tasks in flight
C18_Witness ==
    /\ max_concurrency = 2
    /\ Len(chunks) = 4
    /\ batch_start = 2
    /\ Cardinality(InFlight) = 2

\* C19: when every AI call eventually returns or raises,
\* process_chunks_parallel eventually returns, and the returned list has
\* exactly one entry for every input chunk, errored or not.
C19_EventuallyAllChunks ==
    <>(/\ loop = "returned"
       /\ Len(results) = Len(chunks)
       /\ \A k \in 1..Len(chunks) :
              Cardinality({j \in 1..Len(results) :
                              results[j].chunk_id = chunks[k]}) = 1)

\* a run of several batches has returned with an error entry among its results
C19_Witness ==
    /\ loop = "returned"
    /\ Len(chunks) > max_concurrency
    /\ Len(results) = Len(chunks)
    /\ \E j \in 1..Len(results) : results[j].error # None

\* C20: whatever the order in which the chunk tasks complete, the i-th entry
\* of the returned list is the result of the i-th input chunk, so the list
\* handed to the merge is the same for every interleaving.
C20_ResultsInChunkOrder ==
    loop = "returned" =>
        /\ Len(results) = Len(chunks)
        /\ \A k \in 1..Len(chunks) :
               /\ results[k].chunk_id = chunks[k]
               /\ results[k] = ExpectedResult(k)

\* a returned run in which a later chunk completed before an earlier one
C20_Witness ==
    /\ loop = "returned"
    /\ Len(results) = Len(chunks)
    /\ \E a, b \in 1..Len(progress) : a < b /\ progress[a][1] > progress[b][1]

\* C21: a chunk whose processing raises yields one entry with its chunk_id,
\* an error field and its content flags; the exception does not leave
\* process_chunks_parallel, and the other chunks of the batch and of the
\* later batches complete with their normal results.
C21_FaultIsolated ==
    /\ \A k \in 1..Len(chunks) :
           (phase[k] = "done" /\ faults[k] = "callback") =>
               /\ task_result[k][1].chunk_id = chunks[k]
               /\ task_result[k][1].error # None
               /\ task_result[k][1].flags = chunk_flags(chunks[k])
    /\ loop = "returned" =>
           /\ Len(results) = Len(chunks)
           /\ \A k \in 1..Len(chunks) :
                  /\ phase[k] = "done"
                  /\ results[k] = task_result[k][1]
                  /\ faults[k] = "none" =>
                         /\ results[k].error = None
                         /\ results[k].summary = "generated"
                         /\ results[k].explanation = "generated"
                         /\ results[k].quiz = "parsed"

\* the first chunk of a run of two batches of two raised, and the run returned
C21_Witness ==
    /\ loop = "returned"
    /\ Len(chunks) = 4
    /\ max_concurrency = 2
    /\ faults[1] = "callback"
    /\ results[1].error # None
    /\ results[2].error = None
    /\ results[4].summary = "generated"

C23_BatchesPaced ==
    /\ \A k \in 1..Len(chunks) :
           phase[k] # "not created" =>
               /\ \A j \in 1..(((k - 1) \div max_concurrency) * max_concurrency) :
                      phase[j] = "done"
               /\ delays >= (k - 1) \div max_concurrency
    /\ \A k \in 1..Len(chunks) :
           phase[k] \notin {"not created", "done"} =>
               delays = (k - 1) \div max_concurrency
    /\ Cardinality({k \in 1..Len(chunks) : phase[k] \notin {"not created", "done"}})
           <= max_concurrency
    /\ loop = "returned" =>
           delays = (IF Len(chunks) = 0 THEN 0
                     ELSE (Len(chunks) - 1) \div max_concurrency)

\* a run of two batches has returned after exactly one delay
C23_Witness ==
    /\ loop = "returned"
    /\ Len(chunks) = 4
    /\ max_concurrency = 3
    /\ delays = 1

\* create_chunks has returned the chunks of a text longer than chunk_size
ChunkedLongText == cc_pc = "returned" /\ Len(full_text) > chunk_size

\* the contents of the chunks, each without the overlap recorded for it,
\* one after the other
RECURSIVE Rebuilt(_)
Rebuilt(cs) ==
    IF cs = <<>> THEN <<>>
    ELSE LET c == cs[Len(cs)]
         IN Rebuilt(SubSeq(cs, 1, Len(cs) - 1)) \o
            Slice(c.content, c.overlap_size, Len(c.content))

\* C24: for a text longer than chunk_size, the chunk contents without their
\* recorded overlaps, concatenated in chunk order, are exactly the text.
C24_OverlapsRemovedRebuildText ==
    ChunkedLongText => Rebuilt(doc_chunks) = full_text

\* C25: a text of at most chunk_size characters, the empty text included,
\* gives exactly one chunk with the whole text, start 0, end len and overlap 0.
C25_ShortTextOneChunk ==
    (cc_pc = "returned" /\ Len(full_text) <= chunk_size) =>
        /\ Len(doc_chunks) = 1
        /\ doc_chunks[1].content = full_text
        /\ doc_chunks[1].start_index = 0
        /\ doc_chunks[1].end_index = Len(full_text)
        /\ doc_chunks[1].overlap_size = 0

\* a text of exactly chunk_size characters has been returned as one chunk
C25_Witness ==
    /\ cc_pc = "returned"
    /\ Len(full_text) = 3
    /\ chunk_size = 3
    /\ overlap_size = 3
    /\ preserve_math
    /\ Len(doc_chunks) = 1

\* ceil(a / b) for a >= 0 and b > 0
CeilDiv(a, b) == (a + b - 1) \div b

\* where the chunk number c starts before its overlap is added
UnoverlappedStart(c) == IF c = 1 THEN 0 ELSE doc_chunks[c - 1].end_index

\* no chunk end was moved back to a break point
NoEndMoved ==
    \A c \in 1..Len(doc_chunks) :
        doc_chunks[c].end_index = Min(UnoverlappedStart(c) + chunk_size, Len(full_text))

\* C26: a text longer than chunk_size gives exactly ceil(len / chunk_size)
\* chunks, whatever it contains.
C26_ChunkCount ==
    ChunkedLongText => Len(doc_chunks) = CeilDiv(Len(full_text), chunk_size)

\* C26 amended: there are at least ceil(len / chunk_size) chunks, exactly
\* that many when no end is moved back to a break point, and at most
\* 1 + ceil((len - chunk_size) / (0.7 * chunk_size)).
C26_ChunkCountAmended ==
    ChunkedLongText =>
        /\ Len(doc_chunks) >= CeilDiv(Len(full_text), chunk_size)
        /\ NoEndMoved => Len(doc_chunks) = CeilDiv(Len(full_text), chunk_size)
        /\ Len(doc_chunks) <=
               1 + CeilDiv(10 * (Len(full_text) - chunk_size), 7 * chunk_size)

\* a text of 14 characters split with chunk_size 7 into 3 chunks
C26_Witness ==
    /\ ChunkedLongText
    /\ Len(full_text) = 14
    /\ chunk_size = 7
    /\ ~NoEndMoved
    /\ Len(doc_chunks) = 3

\* the last place where the separator sep lies inside text[from:to], -1 when
\* there is none
LastBreak(sep, from, to) ==
    LET places == {k \in from..(to - Len(sep)) :
                      \A j \in 1..Len(sep) : full_text[k + j] = sep[j]}
    IN IF places = {} THEN -1 ELSE CHOOSE k \in places : \A m \in places : m <= k

\* paragraph break, line break, then the sentence enders
PriorityOrder == << <<"\n", "\n">>, <<"\n">>, <<".", " ">>, <<"!", " ">>, <<"?", " ">> >>

\* the candidates that lie more than 70% of chunk_size past the start
Qualifying(from, to) ==
    {n \in 1..Len(PriorityOrder) :
        10 * LastBreak(PriorityOrder[n], from, to) > 10 * from + 7 * chunk_size}

Normal(t) == [base |-> t.base, upper |-> FALSE, padded |-> FALSE]

\* the question of origin o comes before the question of origin p in chunk order
Before(o, p) == o[1] < p[1] \/ (o[1] = p[1] /\ o[2] < p[2])

\* C28: in the merged quiz no two questions have the same text after trimming
\* and lower-casing, the question kept for a text is the first one in chunk
\* order, no question comes from an error result, and there are at most 15.
C28_MergedQuizUnique ==
    \A c \in 1..Len(merged) :
        LET quiz == merged[c].merged_quiz
        IN /\ Len(quiz) <= 15
           /\ \A a, b \in 1..Len(quiz) :
                  a # b => Normal(quiz[a].question) # Normal(quiz[b].question)
           /\ \A a \in 1..Len(quiz) :
                  /\ merge_input[quiz[a].origin[1] + 1].error = None
                  /\ merge_input[quiz[a].origin[1] + 1].quiz[quiz[a].origin[2]] = quiz[a]
                  /\ \A k \in 1..Len(merge_input) :
                         \A n \in 1..Len(merge_input[k].quiz) :
                             LET q == merge_input[k].quiz[n]
                             IN (/\ merge_input[k].error = None
                                 /\ q.is_dict
                                 /\ Normal(q.question) = Normal(quiz[a].question))
                                    => ~Before(q.origin, quiz[a].origin)

\* six results, the second repeating questions of the first in another case:
\* 16 different questions were offered and 15 were kept
C28_Witness ==
    /\ Len(merged) >= 1
    /\ Len(merge_input) = 6
    /\ merge_input[2].summary = ""
    /\ \A k \in {1, 3, 4, 5, 6} : merge_input[k].error = None /\ merge_input[k].explanation # None
    /\ Len(merged[1].merged_quiz) = 15

SurvivingSummaries ==
    LET rs == SelectSeq(merge_input, LAMBDA r : r.error = None /\ r.summary \notin {None, ""})
    IN [k \in 1..Len(rs) |-> rs[k].summary]

SurvivingExplanations ==
    LET rs == SelectSeq(merge_input,
                        LAMBDA r : r.error = None /\ r.explanation \notin {None, ""})
    IN [k \in 1..Len(rs) |-> rs[k].explanation]

\* the document holds one numbered header for each of the texts, in order,
\* each followed by its text
OneHeaderPerText(doc, texts) ==
    LET headers == SelectSeq(doc, LAMBDA b : b.kind = "header")
        bodies  == SelectSeq(doc, LAMBDA b : b.kind = "body")
    IN /\ Len(headers) = Len(texts)
       /\ \A k \in 1..Len(headers) : headers[k].n = k
       /\ Len(bodies) = Len(texts)
       /\ \A k \in 1..Len(bodies) : bodies[k].text = texts[k]

\* C30: for every number of surviving results of at least one, the merged
\* summary and the merged explanation hold exactly one numbered section
\* header per surviving result, in chunk order.
C30_OneHeaderPerSurvivor ==
    \A c \in 1..Len(merged) :
        /\ Len(SurvivingSummaries) >= 1 =>
               OneHeaderPerText(merged[c].merged_summary, SurvivingSummaries)
        /\ Len(SurvivingExplanations) >= 1 =>
               OneHeaderPerText(merged[c].merged_explanation, SurvivingExplanations)

\* the advance of the start made by the chunk number c
Advance(c) == doc_chunks[c].end_index - UnoverlappedStart(c)

\* the chunks built so far advance through the text without gap
ChunksAdvance ==
    /\ cc_pc = "while" => start_index = UnoverlappedStart(Len(doc_chunks) + 1)
    /\ cc_pc = "returned" =>
           /\ Len(doc_chunks) >= 1
           /\ doc_chunks[Len(doc_chunks)].end_index = Len(full_text)
    /\ \A c \in 1..Len(doc_chunks) :
           /\ doc_chunks[c].start_index =
                  Max(0, UnoverlappedStart(c) - doc_chunks[c].overlap_size)
           /\ doc_chunks[c].overlap_size = (IF c = 1 THEN 0 ELSE overlap_size)
           /\ (Len(full_text) > 0 \/ c > 1) => Advance(c) > 0
           /\ doc_chunks[c].end_index <= Len(full_text)
           /\ doc_chunks[c].end_index < Len(full_text) =>
                  /\ 10 * Advance(c) > 7 * chunk_size
                  /\ Advance(c) <= chunk_size

\* C34: create_chunks returns for every text and chunk_size >= 1; the chunk
\* ends strictly increase up to len(text), each chunk starts (before its
\* overlap) where the one before ended, and every chunk but the last advances
\* by more than 0.7 * chunk_size and at most chunk_size characters.
C34_TerminatesAdvancing == <>(cc_pc = "returned") /\ []ChunksAdvance

\* a returned run with chunk_size 1 and an overlap larger than the chunk size,
\* and one whose end was moved back to a break point
C34_Witness ==
    /\ cc_pc = "returned"
    /\ Len(doc_chunks) >= 3
    /\ \/ chunk_size = 1 /\ overlap_size = 3
       \/ ~NoEndMoved

\* C35: every chunk returned by create_chunks has the content
\* text[start_index:end_index], with the preservation step on or off.
C35_ContentIsSlice ==
    \A c \in 1..Len(doc_chunks) :
        doc_chunks[c].content =
            Slice(full_text, doc_chunks[c].start_index, doc_chunks[c].end_index)

\* C36: should_proceed starts true, and no stage sets it back to true once a
\* stage has set it to false.
C36_ShouldProceedMonotone ==
    [][/\ executed = <<>> => state.should_proceed
       /\ ~state.should_proceed => ~state'.should_proceed]_vars

\* validation stopped the run and the stages up to routing ran after it
C36_Witness ==
    /\ Ended
    /\ ~state.should_proceed
    /\ Ran("validate_image")
    /\ "route_processing" \in {After("validate_image")[i] : i \in DOMAIN After("validate_image")}
    /\ state.quality_score = None_float

\* C37: an image of more than MAX_IMAGE_SIZE bytes, given in the state or
\* read from image_path, is stopped by validate_image, and no AI-calling
\* stage runs on it.
C37_OversizedRejected ==
    upload.size > MAX_IMAGE_SIZE =>
        /\ calls = <<>>
        /\ Ran("validate_image") => ~state.should_proceed

\* the fill-in-the-blank questions of a quiz
FillQuestions(quiz) == SelectSeq(quiz, LAMBDA q : q.question_type = "fill_in_blank")

\* C32: the fallback quiz holds at most one fill-in-the-blank question for
\* each of the first 5 sentences, each for a sentence longer than 20
\* characters, and then exactly one comprehension question iff the text is
\* non-empty and fewer than 3 questions were produced; it has at most 5
\* questions, and at least one for a non-empty text.
C32_FallbackQuiz ==
    fb_quiz # <<>> =>
        LET quiz     == fb_quiz[1]
            fill     == FillQuestions(quiz)
            nonempty == Len(fb_text) > 1 \/ fb_text[1].len + fb_text[1].pad > 0
        IN /\ \A k \in 1..Len(fill) :
                  /\ fill[k].sentence \in 1..5
                  /\ fill[k].sentence <= Len(fb_text)
                  /\ fb_text[fill[k].sentence].len > 20
                  /\ \A j \in 1..(k - 1) : fill[j].sentence < fill[k].sentence
           /\ quiz = IF nonempty /\ Len(fill) < 3
                     THEN Append(fill, [question_type |-> "short_answer",
                                        difficulty |-> "easy", sentence |-> 0])
                     ELSE fill
           /\ Len(quiz) <= 5
           /\ nonempty => Len(quiz) >= 1

\* six sentences that each give a question: five questions, none of them the
\* comprehension question
C32_Witness ==
    /\ fb_quiz # <<>>
    /\ Len(fb_text) = 6
    /\ \A n \in 1..6 : fb_text[n] = [len |-> 21, pad |-> 0, words |-> 6, key_words |-> 1]
    /\ Len(fb_quiz[1]) = 5

\* C38: the result of process_study_image has success true iff the final
\* state of the work flow has should_proceed true, no error_message and a
\* stripped text of at least MIN_TEXT_LENGTH characters, and the status is
\* 'completed' when success is true and 'failed' otherwise.
C38_SuccessIffUsable ==
    (response # <<>> /\ result # <<>>) =>
        /\ response[1].success <=>
               /\ result[1].should_proceed
               /\ result[1].error_message = None
               /\ ~result[1].extracted_text.none
               /\ result[1].extracted_text.core >= settings.MIN_TEXT_LENGTH
        /\ response[1].status = IF response[1].success THEN "completed" ELSE "failed"

\* the results of the list with an error marker, and those with a flag set
Errored(rs) == {k \in 1..Len(rs) : rs[k].error # None}
Flagged(rs, flag) == {k \in 1..Len(rs) : rs[k].flags[flag]}

\* C31: the statistics of merge_chunk_results for the chunks and the list
\* process_chunks_parallel returned for them: total_chunks is the number of
\* chunks, successful_chunks the number of results without an error marker,
\* failed_chunks the number of results with one, and the math, chemical and
\* supersub counts are the numbers of results, errored ones included, with
\* the flag set.
C31_StatisticsCount ==
    (loop = "returned" /\ merged # <<>>) =>
        LET st == merged[1].chunk_statistics
        IN /\ st.total_chunks = Len(chunks)
           /\ st.successful_chunks = Len(results) - Cardinality(Errored(results))
           /\ st.failed_chunks = Cardinality(Errored(results))
           /\ st.successful_chunks + st.failed_chunks = st.total_chunks
           /\ st.failed_chunks >= 0
           /\ st.math_chunks = Cardinality(Flagged(results, "has_math"))
           /\ st.chemical_chunks = Cardinality(Flagged(results, "has_chemical"))
           /\ st.supersub_chunks = Cardinality(Flagged(results, "has_supersub"))

\* a merge of several batches with an errored result that carries a flag
C31_Witness ==
    /\ loop = "returned"
    /\ merged # <<>>
    /\ Len(chunks) > max_concurrency
    /\ merged[1].chunk_statistics.successful_chunks >= 1
    /\ \E k \in Errored(results) : results[k].flags.has_math

\* the merged text has a section with that text
HasSection(doc, t) == \E i \in DOMAIN doc : doc[i].kind = "body" /\ doc[i].text = t

\* C33: a chunk whose summary, explanation or quiz generation call fails is
\* an error result of process_chunks_parallel, it is counted in failed_chunks
\* and no failure text is a section of the merged summary or explanation.
C33_FailedGenerationIsError ==
    (loop = "returned" /\ merged # <<>>) =>
        \A k \in 1..Len(chunks) :
            faults[k] \in {"summary", "explanation", "quiz"} =>
                /\ results[k].error # None
                /\ merged[1].chunk_statistics.failed_chunks >= 1
                /\ ~HasSection(merged[1].merged_summary, "Summary generation failed")
                /\ ~HasSection(merged[1].merged_explanation,
                               "Explanation generation failed")

\* C39: login_user creates a session and returns tokens only if the password
\* verifies against the password hash stored for the account with that
\* email; for every account, whatever its auth provider, a call with a
\* password that does not match creates no session and returns no tokens.
C39_LoginNeedsPassword ==
    [][(/\ last_call'.op = "login_user"
        /\ ~(/\ last_call'.email \in DOMAIN accounts
             /\ verify_password(last_call'.password, accounts[last_call'.email].password_hash)))
       => (sessions' = sessions /\ ~last_call'.accepted)]_vars

\* the call of this step accepted a token that was issued for the session
Accepts(call, session) ==
    /\ call.op \in {"refresh_tokens", "get_current_user"}
    /\ call.accepted
    /\ call.token \in session.issued

\* a revoked session stays invalid
RevokedStaysInvalid ==
    [][\A i \in DOMAIN sessions :
          sessions[i].is_revoked => ~is_valid(sessions'[i])]_vars

\* refresh_tokens accepts no refresh token of a revoked session
RevokedRefreshFails ==
    [][\A i \in DOMAIN sessions :
          (sessions[i].is_revoked /\ last_call'.op = "refresh_tokens")
              => ~Accepts(last_call', sessions[i])]_vars

\* C40: after a session has been revoked by logout_user or
\* logout_all_sessions, no credential issued for it is accepted again:
\* refresh_tokens with its refresh token fails, no operation makes the
\* session valid again, and get_current_user does not authenticate the
\* access token that was issued for it.
C40_RevokedNeverAccepted ==
    [][\A i \in DOMAIN sessions :
          sessions[i].is_revoked =>
              /\ ~is_valid(sessions'[i])
              /\ ~Accepts(last_call', sessions[i])]_vars

====
